---- MODULE Spec2Model ----
(***************************************************************************)
(* Verification model of the entrepreneurhub lead pipeline: the outreach   *)
(* agents (backend/agents/auto-outreach-agent.js and its sibling versions),*)
(* the reply handler (backend/services/ai-conversation-handler.js), the    *)
(* batch processor (backend/services/batch-processor.js) and the           *)
(* unsubscribe / send-email endpoints of backend/server.js.                *)
(*                                                                         *)
(* The persistent store is modelled table by table; every variable that    *)
(* is a table carries the table's name in the source.                      *)
(***************************************************************************)
EXTENDS Integers, Sequences, FiniteSets, TLC

\* ------------------------------------------------------------------------
\* Bounds of the model
\* ------------------------------------------------------------------------
\* rows of scored_opportunities the batch processor sees
MaxLeads == 3
\* rows of scored_opportunities the outreach sweep sees
MaxOpps == 2
\* config.batchSize of the batch processor, scaled down from 100
batchSize == 2
\* concurrent createBatch invocations
MaxCallers == 2

\* number of handleReply invocations explored
MaxReplies == 2
\* rows of mfs_leads
MaxMfsLeads == 2
\* concurrently running sweeps of the mfs_leads agent
MaxWorkers == 1
\* messages the provider accepts per address
MaxDispatch == 2
\* failing store and provider calls in one behaviour of the outreach agents
MaxFaults == 2
\* rows of outreach_campaigns
MaxCampaigns == 3

\* rows of market_gaps
MaxGaps == 2
\* messages the send-email endpoint hands to the provider
MaxEndpointSends == 1
\* rows of outreach_campaigns a reply can arrive for
MaxReplyCampaigns == 1
\* phrases in the text of an opportunity handed to the scorer
MaxPhrases == 4
\* campaigns with an unprocessed reply
MaxPendingReplies == 2
\* batches that exist before completeBatch is called
MaxBatches == 2
\* completeBatch invocations
MaxCompletions == 2
\* active events of the calendar
MaxEvents == 1
\* campaigns the booking service works on
MaxBookingCampaigns == 2
\* calls of the booking service
MaxBookingCalls == 3
\* child processes the server spawns
MaxSpawns == 3
\* campaigns the delivery agents look at
MaxDeliveryCampaigns == 2
\* rows of solution_deliveries
MaxDeliveries == 3
\* places of the severity list a lead's text starts from
MaxPainStarts == 3

\* .limit(5) of the mfs_leads sweep (unnamed/part_003:344)
SweepLimit == 5
\* .limit(10) of the scored_opportunities sweep (unnamed/part_003:67)
ScoredLimit == 10
\* .limit(5) of the market_gaps sweeps (auto-outreach-agent.js:45)
GapsLimit == 5
\* .gte('overall_score', 70) of the scored_opportunities sweep
\* (unnamed/part_003:65)
OutreachMinScore == 70
\* .gte('confidence_score', 0.7) of the market_gaps sweeps, in tenths
\* (auto-outreach-agent.js:43)
MinConfidence == 7
\* .limit(50) of processAllReplies (ai-conversation-handler.js:324)
RepliesLimit == 50

NULL == "null"

\* batch_id of a row that is in no batch (SQL NULL)
NoBatch == 0

\* calendly_event_id of a campaign without a meeting (SQL NULL)
NoEvent == 0

Leads == 1..MaxLeads
Callers == 1..MaxCallers

\* config.minScore (batch-processor.js:18)
minScore == 25

\* overall_score values around minScore
ScoreValues == {20, 25, 30}

\* recipient addresses; "A@x.com" is "a@x.com" written with a capital
Emails == {"a@x.com", "A@x.com", "b@x.com"}

\* String.prototype.toLowerCase on the addresses of the model
toLowerCase(e) == IF e = "A@x.com" THEN "a@x.com" ELSE e

VARIABLES
    system_settings,       \* setting_value of auto_outreach_enabled, NULL = no row
    resend_api_key,        \* process.env.RESEND_API_KEY is set
    mfs_leads,             \* table: id -> row
    scored_opportunities,  \* table: id -> row
    market_gaps,           \* table: id -> row
    outreach_campaigns,    \* table: sequence of rows, id = index
    email_blocklist,       \* table: set of addresses
    email_conversations,   \* table: sequence of rows
    processing_batches,    \* table: sequence of rows, id = index
    resend,                \* messages accepted by the email provider
    sweep,                 \* the running sweep of each agent process
    calls,                 \* createBatch invocations and their results
    replies,               \* handleReply invocations and their results
    faults,                \* store and provider calls that failed so far
    opportunity,           \* the record handed to the scorer
    scoring,               \* the scorer's invocation and its result
    completions,           \* completeBatch invocations and their results
    inventory,             \* the last getInventoryStatus call and its report
    scheduled_events,      \* the calendar's active events: uri -> invitee email
    sync,                  \* the running syncScheduledMeetings call
    bookings,              \* calls of the booking service and what they wrote
    agentProcesses,        \* server.js: agent name -> tracked child, 0 = none
    agentStats,            \* server.js: agent name -> status
    children,              \* child processes spawned: pid -> name and state
    restartTimers,         \* server.js: pending setTimeout callbacks
    auto_delivery_enabled, \* setting_value of auto_delivery_enabled, NULL = no row
    solution_deliveries,   \* table: sequence of rows
    delivery               \* the running sweep of each delivery agent

vars == <<system_settings, resend_api_key, mfs_leads, scored_opportunities,
          market_gaps, outreach_campaigns, email_blocklist,
          email_conversations, processing_batches, resend, sweep, calls,
          replies, faults, opportunity, scoring, completions, inventory,
          scheduled_events, sync, bookings, agentProcesses, agentStats,
          children, restartTimers, auto_delivery_enabled,
          solution_deliveries, delivery>>

\* the variables of the scorer
scorerVars == <<opportunity, scoring>>

\* the variables of the delivery agents
deliveryVars == <<auto_delivery_enabled, solution_deliveries, delivery>>

\* the variables of the agent endpoints of server.js
agentVars == <<agentProcesses, agentStats, children, restartTimers>>

\* the variables of the booking service
bookingVars == <<scheduled_events, sync, bookings>>

\* the variables of the services outside the outreach agents, the batch
\* admission and the scorer
serviceVars == <<completions, inventory, bookingVars, agentVars,
                 deliveryVars>>

\* the variables of the outreach agents, the endpoints and the reply handler
outreachVars == <<system_settings, resend_api_key, mfs_leads, market_gaps,
                  outreach_campaigns, email_blocklist, email_conversations,
                  resend, sweep, replies, faults>>

\* ------------------------------------------------------------------------
\* Batch processor (backend/services/batch-processor.js)
\* ------------------------------------------------------------------------

\* Rows matched by .eq('qualified', true).gte('overall_score', minScore)
\* .is('batch_id', null)
Eligible(opps) ==
    {l \in Leads : /\ opps[l].qualified
                   /\ opps[l].overall_score >= minScore
                   /\ opps[l].batch_id = NoBatch}

\* Response of a select with { count: 'exact', head: true }: the rows are
\* not returned (data is null), the count is a field of the response.
HeadCountResponse(rows) == [data |-> NULL, count |-> Cardinality(rows)]

\* qualified?.count || 0, where qualified is the response's data
CountOf(data) == IF data = NULL THEN 0 ELSE data.count

getInventoryStatus(opps) ==
    LET qualified == HeadCountResponse(Eligible(opps)).data
    IN  [available |-> CountOf(qualified),
         needsReplenishment |-> CountOf(qualified) < 1000]

\* no getInventoryStatus call has been made
NoReport == [pc |-> "idle"]

\* one call of getInventoryStatus(); eligible is the number of eligible
\* rows when the call ran, kept for the properties
GetInventoryStatusCall ==
    /\ inventory.pc = "idle"
    /\ inventory' = [pc |-> "done",
                     report |-> getInventoryStatus(scored_opportunities),
                     eligible |-> Cardinality(Eligible(scored_opportunities))]
    /\ UNCHANGED <<scored_opportunities, processing_batches, calls,
                   completions>>

\* Identifiers bound in the scope of createBatch's body: the module-level
\* bindings of batch-processor.js and the method's own parameter.
\* Methods of the class are reachable through `this` only.
ScopeOfCreateBatch == {"createClient", "BatchProcessor", "clientId", "this"}

IsBound(name) == name \in ScopeOfCreateBatch

\* The admissible results of
\*   .order('overall_score', {ascending: false}).limit(batchSize)
\* over the eligible rows: the order among equal scores is not fixed by the
\* query, so every selection that respects the score order is possible.
TopSelections(opps) ==
    LET el == Eligible(opps)
        n  == IF Cardinality(el) < batchSize THEN Cardinality(el) ELSE batchSize
    IN  {s \in SUBSET el :
            /\ Cardinality(s) = n
            /\ \A a \in s, b \in el \ s :
                   opps[a].overall_score >= opps[b].overall_score}

\* A createBatch invocation that has not run yet.  eligible is the number
\* of eligible rows when the invocation ran and claimed the rows whose
\* batch_id it wrote, both kept for the properties.
CallIdle == [pc |-> "idle", outcome |-> NULL, eligible |-> 0,
             leadCount |-> 0, batchId |-> NoBatch, claimed |-> {}]

Finish(c, outcome, leadCount, batchId, claimed) ==
    calls' = [calls EXCEPT ![c] =
                [pc |-> "done", outcome |-> outcome,
                 eligible |-> Cardinality(Eligible(scored_opportunities)),
                 leadCount |-> leadCount, batchId |-> batchId,
                 claimed |-> claimed]]

NewBatchRow == [status |-> "created", batch_size |-> batchSize]

\* Lines 59-101 of createBatch: insert the batch row, select the top rows,
\* write their batch_id.  fault names the store call that answers with an
\* error; each error is thrown and nothing written before it is undone.
createBatchBody(c, fault) ==
    LET bid == Len(processing_batches) + 1
    IN  IF fault = "batchError"
        THEN /\ Finish(c, "batchError", 0, NoBatch, {})
             /\ UNCHANGED <<scored_opportunities, processing_batches>>
        ELSE IF fault = "leadsError"
        THEN /\ processing_batches' = Append(processing_batches, NewBatchRow)
             /\ Finish(c, "leadsError", 0, bid, {})
             /\ UNCHANGED scored_opportunities
        ELSE IF fault = "updateError"
        THEN /\ processing_batches' = Append(processing_batches, NewBatchRow)
             /\ Finish(c, "updateError", 0, bid, {})
             /\ UNCHANGED scored_opportunities
        ELSE \E sel \in TopSelections(scored_opportunities) :
             /\ processing_batches' = Append(processing_batches, NewBatchRow)
             /\ scored_opportunities' =
                   [l \in Leads |->
                       IF l \in sel
                       THEN [scored_opportunities[l] EXCEPT !.batch_id = bid]
                       ELSE scored_opportunities[l]]
             /\ Finish(c, "success", Cardinality(sel), bid, sel)

\* createBatch with the inventory check of lines 53-57 left out
createBatchUnchecked(c, fault) ==
    /\ calls[c].pc = "idle"
    /\ createBatchBody(c, fault)

\* createBatch(clientId)
createBatch(c, fault) ==
    /\ calls[c].pc = "idle"
    /\ IF ~IsBound("getInventoryStatus")
       THEN \* line 54: the call names a free identifier; evaluating it
            \* throws before any store call is made
            /\ Finish(c, "ReferenceError", 0, NoBatch, {})
            /\ UNCHANGED <<scored_opportunities, processing_batches>>
       ELSE IF getInventoryStatus(scored_opportunities).available < batchSize
       THEN /\ Finish(c, "INSUFFICIENT_INVENTORY", 0, NoBatch, {})
            /\ UNCHANGED <<scored_opportunities, processing_batches>>
       ELSE createBatchBody(c, fault)

StoreFaults == {"none", "batchError", "leadsError", "updateError"}

CreateBatchCall ==
    /\ \E c \in Callers : \E fault \in StoreFaults : createBatch(c, fault)
    /\ UNCHANGED <<outreachVars, scorerVars, serviceVars>>

\* updateBatchStatus(batchId, status): the update of the row with that id;
\* .single() answers with an error when no row has the id
updateBatchStatus(batchId, status, updateOk) ==
    IF updateOk /\ batchId \in DOMAIN processing_batches
    THEN [processing_batches EXCEPT ![batchId].status = status]
    ELSE processing_batches

\* lines 152-154 of completeBatch: the batch is marked 'complete'; an
\* error of the update is thrown and ends the call
CompleteBatchMark(batchId, updateOk) ==
    /\ Len(completions) < MaxCompletions
    /\ processing_batches' = updateBatchStatus(batchId, "complete", updateOk)
    /\ completions' = Append(completions,
          IF updateOk /\ batchId \in DOMAIN processing_batches
          THEN [pc |-> "marked", batch |-> batchId, outcome |-> NULL,
                eligible |-> 0]
          ELSE [pc |-> "done", batch |-> batchId, outcome |-> "updateError",
                eligible |-> 0])
    /\ UNCHANGED <<scored_opportunities, calls>>

\* lines 156-164 of completeBatch: the inventory is read through
\* this.getInventoryStatus() and either createBatch() is awaited and its
\* result returned (what it throws is thrown), or null is returned.
\* eligible is the number of eligible rows at that moment, kept for the
\* properties.
CompleteBatchNext(i, c, fault) ==
    /\ i \in DOMAIN completions
    /\ completions[i].pc = "marked"
    /\ IF getInventoryStatus(scored_opportunities).available >= batchSize
       THEN /\ createBatch(c, fault)
            /\ completions' = [completions EXCEPT ![i] =
                  [@ EXCEPT !.pc = "done", !.outcome = calls'[c].outcome,
                            !.eligible =
                                Cardinality(Eligible(scored_opportunities))]]
       ELSE /\ completions' = [completions EXCEPT ![i] =
                  [@ EXCEPT !.pc = "done", !.outcome = NULL,
                            !.eligible =
                                Cardinality(Eligible(scored_opportunities))]]
            /\ UNCHANGED <<scored_opportunities, processing_batches, calls>>

\* ------------------------------------------------------------------------
\* Reply handler (backend/services/ai-conversation-handler.js)
\* ------------------------------------------------------------------------

\* the label set of classifyReply's prompt
Intents == {"INTERESTED", "READY_TO_BOOK", "NOT_INTERESTED", "OBJECTION",
            "OUT_OF_OFFICE", "UNSUBSCRIBE", "UNCLEAR"}

\* classification.intent of an answer that carries no intent field
UNDEFINED == "undefined"

\* What the text generator can answer: an API error, text holding a JSON
\* object (with or without an intent field), text holding braces that do
\* not parse, or plain text.
GeneratorAnswers ==
    [kind : {"json"}, intent : Intents \cup {UNDEFINED}]
        \cup [kind : {"apiError", "badJson", "text"}, intent : {UNDEFINED}]

\* answers to the response prompt: the intent field plays no role there
ResponseAnswers == {a \in GeneratorAnswers : a.intent = UNDEFINED}

\* askClaude: throws on an API error and on JSON.parse of a malformed
\* object; returns the parsed object, or { emailText: content }.
askClaude(answer) ==
    [threw     |-> answer.kind \in {"apiError", "badJson"},
     intent    |-> IF answer.kind = "json" THEN answer.intent ELSE UNDEFINED,
     emailText |-> IF answer.kind = "text" THEN "content" ELSE UNDEFINED]

\* generateResponse without the early return of lines 102-105
generateResponseAlways(intent, answer) ==
    LET r == askClaude(answer)
    IN  [threw    |-> r.threw,
         asked    |-> 1,
         response |-> IF r.threw THEN NULL
                      ELSE IF r.emailText # UNDEFINED THEN r.emailText
                      ELSE "object"]

\* generateResponse: asked counts the calls of the text generator;
\* response is response.emailText || response
generateResponse(intent, answer) ==
    IF intent \in {"OUT_OF_OFFICE", "UNSUBSCRIBE"}
    THEN [threw |-> FALSE, asked |-> 0, response |-> NULL]
    ELSE LET r == askClaude(answer)
         IN  [threw    |-> r.threw,
              asked    |-> 1,
              response |-> IF r.threw THEN NULL
                           ELSE IF r.emailText # UNDEFINED THEN r.emailText
                           ELSE "object"]

\* updateCampaignStatus without the branch of lines 211-212
newStatusWithoutObjection(intent) ==
    IF intent = "INTERESTED" THEN "interested"
    ELSE IF intent = "READY_TO_BOOK" THEN "booking"
    ELSE IF intent \in {"NOT_INTERESTED", "UNSUBSCRIBE"} THEN "closed_lost"
    ELSE "replied"

\* the status updateCampaignStatus writes
newStatus(intent) ==
    IF intent = "INTERESTED" THEN "interested"
    ELSE IF intent = "READY_TO_BOOK" THEN "booking"
    ELSE IF intent \in {"NOT_INTERESTED", "UNSUBSCRIBE"} THEN "closed_lost"
    ELSE IF intent = "OBJECTION" THEN "nurturing"
    ELSE "replied"

determineAction(intent) ==
    CASE intent = "INTERESTED"     -> "send_response_and_monitor"
      [] intent = "READY_TO_BOOK"  -> "send_calendar_link"
      [] intent = "NOT_INTERESTED" -> "mark_closed"
      [] intent = "OBJECTION"      -> "send_response_and_nurture"
      [] intent = "OUT_OF_OFFICE"  -> "wait_and_retry"
      [] intent = "UNSUBSCRIBE"    -> "remove_from_list"
      [] OTHER                     -> "flag_for_human_review"

\* rows storeConversation inserts for reply number n
storeConversation(cid, n, outgoingResponse, intent) ==
    LET incoming == [campaign_id |-> cid, direction |-> "incoming",
                     classification |-> intent, reply |-> n]
        outgoing == [campaign_id |-> cid, direction |-> "outgoing",
                     classification |-> NULL, reply |-> n]
    IN  IF outgoingResponse # NULL
        THEN <<incoming, outgoing>>
        ELSE <<incoming>>

\* handleReply(campaignId, replyText): classAnswer and genAnswer are what
\* the text generator answers to the classification and to the response
\* prompt; found is false when getCampaignWithHistory finds no row.  The
\* record kept of the call holds the kind of the classifier's answer and
\* whether triggerBooking ran (lines 42-44).
handleReply(cid, found, classAnswer, genAnswer) ==
    /\ Len(replies) < MaxReplies
    /\ LET n              == Len(replies) + 1
           classification == askClaude(classAnswer)
           intent         == classification.intent
           gen            == generateResponse(intent, genAnswer)
           threw          == ~found \/ classification.threw \/ gen.threw
           booking        == intent \in {"interested", "ready_to_book"}
       IN  /\ replies' = Append(replies,
                [campaign |-> cid,
                 recipient |-> outreach_campaigns[cid].recipient_email,
                 threw    |-> threw,
                 answer   |-> IF found THEN classAnswer.kind ELSE NULL,
                 intent   |-> IF ~found \/ classification.threw
                              THEN UNDEFINED ELSE intent,
                 response |-> IF threw THEN NULL ELSE gen.response,
                 asked    |-> IF ~found THEN 0
                              ELSE IF classification.threw THEN 1
                              ELSE 1 + gen.asked,
                 action   |-> IF threw THEN NULL ELSE determineAction(intent),
                 booked   |-> ~threw /\ booking])
           /\ IF threw
              THEN UNCHANGED <<email_conversations, outreach_campaigns>>
              ELSE /\ email_conversations' = email_conversations \o
                          storeConversation(cid, n, gen.response, intent)
                   /\ outreach_campaigns' =
                          [outreach_campaigns EXCEPT ![cid].status =
                              IF booking THEN "booking" ELSE newStatus(intent)]
    /\ UNCHANGED <<system_settings, resend_api_key, mfs_leads, market_gaps,
                   email_blocklist, resend, faults>>

HandleReplyCall ==
    /\ \E cid \in 1..Len(outreach_campaigns) :
         \E found \in BOOLEAN :
           \E classAnswer \in GeneratorAnswers :
             \E genAnswer \in ResponseAnswers :
                handleReply(cid, found, classAnswer, genAnswer)
    /\ UNCHANGED <<sweep, scored_opportunities, processing_batches, calls,
                   scorerVars, serviceVars>>


\* ------------------------------------------------------------------------
\* Email provider and store helpers shared by the agents and the endpoints
\* ------------------------------------------------------------------------

\* resend.emails.send accepted a message for `to`.  blocked collects the
\* addresses that were on the block list when a message to them was
\* accepted.
Dispatch(to, via) ==
    resend' = [resend EXCEPT ![via][to] = @ + 1,
                             !.blocked = IF to \in email_blocklist
                                         THEN @ \cup {to} ELSE @]

\* failed is the set of calls that fail in a step
Spend(failed) ==
    /\ faults + Cardinality(failed) <= MaxFaults
    /\ faults' = faults + Cardinality(failed)

\* the rows a select returns, ordered by key (a function of the row)
\* descending and cut at limit;
\* rows of equal key come in any order
OrderedSelections(rows, key, limit) ==
    LET n == Cardinality(rows)
        m == IF n < limit THEN n ELSE limit
    IN  {SubSeq(q, 1, m) : q \in
            {f \in [1..n -> rows] :
                /\ \A i, j \in 1..n : i # j => f[i] # f[j]
                /\ \A i, j \in 1..n : i < j => key[f[i]] >= key[f[j]]}}

SweepIdle == [pc |-> "idle", auto |-> FALSE, queue |-> <<>>, sent |-> FALSE]

\* const autoSendEnabled = settings?.setting_value === 'true', where the
\* read of the row may fail (settings is then null)
autoSendEnabled(readOk) == readOk /\ system_settings = "true"

\* a row of outreach_campaigns; dispatched records whether an email was
\* handed to the provider for this campaign; replied_at and
\* reply_processed are the columns processAllReplies selects on;
\* delivery_sent is NULL, "false" or "true"
CampaignRow(agent, id, email, status, dispatched) ==
    [agent |-> agent, opportunity_id |-> id, recipient_email |-> email,
     status |-> status, dispatched |-> dispatched,
     replied_at |-> FALSE, reply_processed |-> FALSE,
     calendly_event_id |-> NoEvent, delivery_sent |-> NULL]

\* ------------------------------------------------------------------------
\* Outreach agent over mfs_leads (the second agent of unnamed/part_003)
\* ------------------------------------------------------------------------

\* .not('lead_research','is',null).not('contact_email','is',null)
\* .or('outreach_status.is.null,outreach_status.eq.pending')
MfsReady ==
    {l \in DOMAIN mfs_leads :
        /\ mfs_leads[l].lead_research # NULL
        /\ mfs_leads[l].contact_email # NULL
        /\ mfs_leads[l].outreach_status \in {NULL, "pending"}}

\* the sort key of .order('fit_score', { ascending: false })
MfsFitScore == [l \in MfsReady |-> mfs_leads[l].fit_score]

\* markLeadStatus: an error of the update is logged and swallowed
markLeadStatus(leadId, status, updateOk) ==
    mfs_leads' = IF updateOk
                 THEN [mfs_leads EXCEPT ![leadId].outreach_status = status]
                 ELSE mfs_leads

\* checkAlreadySent: false when the query answers with an error
checkAlreadySent(email, queryOk) ==
    IF email = NULL THEN FALSE
    ELSE IF ~queryOk THEN FALSE
    ELSE \E i \in 1..Len(outreach_campaigns) :
            /\ outreach_campaigns[i].recipient_email = email
            /\ outreach_campaigns[i].status = "sent"

\* the loop moves on to the next lead of the sweep
MfsNext(w) ==
    sweep' = [sweep EXCEPT !.mfs[w] =
                 IF Len(sweep.mfs[w].queue) <= 1
                 THEN SweepIdle
                 ELSE [pc |-> "check", auto |-> sweep.mfs[w].auto,
                       queue |-> Tail(sweep.mfs[w].queue), sent |-> FALSE]]

\* processOutreach up to the start of the loop: read the setting, select
\* the leads (lines 322-356); failed \subseteq {"settings", "leads"}
MfsSweepStart(w, failed) ==
    /\ sweep.mfs[w].pc = "idle"
    /\ Spend(failed)
    /\ IF "leads" \in failed
       THEN UNCHANGED sweep
       ELSE \E q \in OrderedSelections(MfsReady, MfsFitScore, SweepLimit) :
              sweep' = [sweep EXCEPT !.mfs[w] =
                          IF q = <<>> THEN SweepIdle
                          ELSE [pc |-> "check",
                                auto |-> autoSendEnabled("settings" \notin failed),
                                queue |-> q, sent |-> FALSE]]
    /\ UNCHANGED <<system_settings, resend_api_key, mfs_leads, market_gaps,
                   outreach_campaigns, email_blocklist, email_conversations,
                   resend, replies>>

\* one lead of the loop, from the duplicate check to the decision to send
\* (lines 359-389); written is "ok", "poor" (validateEmail rates the email
\* poor) or "throws" (writeEmail throws); failed \subseteq {"query", "update"}
MfsCheck(w, written, failed) ==
    /\ sweep.mfs[w].pc = "check"
    /\ Spend(failed)
    /\ LET lead == Head(sweep.mfs[w].queue)
           email == mfs_leads[lead].contact_email
           updateOk == "update" \notin failed
       IN  IF checkAlreadySent(email, "query" \notin failed)
           THEN /\ markLeadStatus(lead, "already_sent", updateOk)
                /\ MfsNext(w)
           ELSE IF written = "throws"
           THEN /\ markLeadStatus(lead, "error", updateOk)
                /\ MfsNext(w)
           ELSE IF written = "poor"
           THEN /\ markLeadStatus(lead, "email_quality_failed", updateOk)
                /\ MfsNext(w)
           ELSE /\ sweep' = [sweep EXCEPT !.mfs[w].pc =
                                IF sweep.mfs[w].auto /\ resend_api_key
                                THEN "send" ELSE "campaign"]
                /\ UNCHANGED mfs_leads
    /\ UNCHANGED <<system_settings, resend_api_key, market_gaps,
                   outreach_campaigns, email_blocklist, email_conversations,
                   resend, replies>>

\* sendEmail and its catch (lines 390-400); failed \subseteq {"send", "update"}
MfsSend(w, failed) ==
    /\ sweep.mfs[w].pc = "send"
    /\ Spend(failed)
    /\ LET lead == Head(sweep.mfs[w].queue)
           email == mfs_leads[lead].contact_email
       IN  IF "send" \notin failed
           THEN /\ resend.sweep[email] < MaxDispatch
                /\ Dispatch(email, "sweep")
                /\ sweep' = [sweep EXCEPT !.mfs[w].pc = "campaign",
                                          !.mfs[w].sent = TRUE]
                /\ UNCHANGED mfs_leads
           ELSE /\ markLeadStatus(lead, "send_failed", "update" \notin failed)
                /\ MfsNext(w)
                /\ UNCHANGED resend
    /\ UNCHANGED <<system_settings, resend_api_key, market_gaps,
                   outreach_campaigns, email_blocklist, email_conversations,
                   replies>>

\* createCampaign (lines 555-579): an error of the insert is logged and
\* swallowed; failed \subseteq {"insert"}
MfsCreateCampaign(w, failed) ==
    /\ sweep.mfs[w].pc = "campaign"
    /\ Spend(failed)
    /\ LET lead == Head(sweep.mfs[w].queue)
           sent == sweep.mfs[w].sent
       IN  IF "insert" \notin failed
           THEN /\ Len(outreach_campaigns) < MaxCampaigns
                /\ outreach_campaigns' = Append(outreach_campaigns,
                      CampaignRow("mfs", lead, mfs_leads[lead].contact_email,
                                  IF sent THEN "sent" ELSE "draft", sent))
           ELSE UNCHANGED outreach_campaigns
    /\ sweep' = [sweep EXCEPT !.mfs[w].pc = "mark"]
    /\ UNCHANGED <<system_settings, resend_api_key, mfs_leads, market_gaps,
                   email_blocklist, email_conversations, resend, replies>>

\* markLeadStatus(lead.id, sent ? 'sent' : 'draft') and the end of the
\* loop body (lines 408-412); failed \subseteq {"update"}
MfsMark(w, failed) ==
    /\ sweep.mfs[w].pc = "mark"
    /\ Spend(failed)
    /\ LET lead == Head(sweep.mfs[w].queue)
       IN  markLeadStatus(lead, IF sweep.mfs[w].sent THEN "sent" ELSE "draft",
                          "update" \notin failed)
    /\ MfsNext(w)
    /\ UNCHANGED <<system_settings, resend_api_key, market_gaps,
                   outreach_campaigns, email_blocklist, email_conversations,
                   resend, replies>>

\* stop(), the handler of SIGTERM and SIGINT (lines 595-599 and 607-608):
\* process.exit(0) ends the process where its sweep stands; the handler
\* runs while the sweep awaits one of its calls.  The sweep's record is
\* kept as it was, for the properties.
MfsStop(w) ==
    /\ sweep.mfs[w].pc \notin {"off", "exited"}
    /\ sweep' = [sweep EXCEPT !.mfs[w].pc = "exited"]
    /\ UNCHANGED <<system_settings, resend_api_key, mfs_leads, market_gaps,
                   outreach_campaigns, email_blocklist, email_conversations,
                   resend, replies, faults>>

\* ------------------------------------------------------------------------
\* Endpoints of backend/server.js
\* ------------------------------------------------------------------------

\* GET /api/unsubscribe/:email
UnsubscribeGet(email) ==
    /\ email_blocklist' = email_blocklist \cup {toLowerCase(email)}
    /\ outreach_campaigns' =
          [i \in 1..Len(outreach_campaigns) |->
              IF outreach_campaigns[i].recipient_email = toLowerCase(email)
              THEN [outreach_campaigns[i] EXCEPT !.status = "unsubscribed"]
              ELSE outreach_campaigns[i]]
    /\ UNCHANGED <<system_settings, resend_api_key, mfs_leads, market_gaps,
                   email_conversations, resend, sweep, replies, faults>>

\* POST /api/unsubscribe/:email (one-click unsubscribe)
UnsubscribePost(email) ==
    /\ email_blocklist' = email_blocklist \cup {toLowerCase(email)}
    /\ UNCHANGED <<system_settings, resend_api_key, mfs_leads, market_gaps,
                   outreach_campaigns, email_conversations, resend, sweep,
                   replies, faults>>

EndpointSends ==
    resend.endpoint["a@x.com"] + resend.endpoint["A@x.com"]
        + resend.endpoint["b@x.com"]

\* POST /api/send-email with to, subject and body present;
\* failed \subseteq {"send"}
SendEmailEndpoint(to, failed) ==
    /\ resend_api_key
    /\ Spend(failed)
    /\ IF "send" \notin failed
       THEN /\ EndpointSends < MaxEndpointSends
            /\ Dispatch(to, "endpoint")
       ELSE UNCHANGED resend
    /\ UNCHANGED <<system_settings, resend_api_key, mfs_leads, market_gaps,
                   outreach_campaigns, email_blocklist, email_conversations,
                   sweep, replies>>

\* ------------------------------------------------------------------------
\* Outreach agent over scored_opportunities (the first agent of
\* unnamed/part_003)
\* ------------------------------------------------------------------------

\* .is('outreach_sent', null).gte('overall_score', 70)
\* .eq('route_to_outreach', true)
ScoredReady ==
    {o \in DOMAIN scored_opportunities :
        /\ ~scored_opportunities[o].outreach_sent
        /\ scored_opportunities[o].overall_score >= OutreachMinScore
        /\ scored_opportunities[o].route_to_outreach}

\* a select without .order(): every order of the rows is possible
Unordered(rows) == [r \in rows |-> 0]

\* markAsProcessed: the result of the update is not looked at
markAsProcessed(o, status, updateOk) ==
    scored_opportunities' =
        IF updateOk
        THEN [scored_opportunities EXCEPT ![o].outreach_sent = TRUE,
                                          ![o].outreach_status = status]
        ELSE scored_opportunities

\* opp.contact_email || opp.opportunity_data?.discovered_email
recipientEmail(opp) ==
    IF opp.contact_email # NULL THEN opp.contact_email ELSE opp.discovered_email

ScoredNext ==
    sweep' = [sweep EXCEPT !.scored =
                 IF Len(sweep.scored.queue) <= 1 THEN SweepIdle
                 ELSE [sweep.scored EXCEPT !.queue = Tail(sweep.scored.queue)]]

\* processOutreach up to the start of the loop (lines 50-76);
\* failed \subseteq {"settings", "select"}
ScoredSweepStart(failed) ==
    /\ sweep.scored.pc = "idle"
    /\ Spend(failed)
    /\ IF "select" \in failed
       THEN UNCHANGED sweep
       ELSE \E q \in OrderedSelections(ScoredReady, Unordered(ScoredReady),
                                         ScoredLimit) :
              sweep' = [sweep EXCEPT !.scored =
                          IF q = <<>> THEN SweepIdle
                          ELSE [pc |-> "loop",
                                auto |-> autoSendEnabled("settings" \notin failed),
                                queue |-> q, sent |-> FALSE]]
    /\ UNCHANGED <<system_settings, resend_api_key, mfs_leads,
                   scored_opportunities, market_gaps, outreach_campaigns,
                   email_blocklist, email_conversations, resend, replies>>

\* the body of the loop for one opportunity (lines 79-129).  metCriteria
\* and totalScore are what the scorer finds in the opportunity's text;
\* failed \subseteq {"research", "send", "insert", "update"}: researchLead,
\* sendEmail and the insert of createCampaign throw when they fail and the
\* catch of line 127 ends the iteration.
ScoredProcess(metCriteria, totalScore, failed) ==
    /\ sweep.scored.pc = "loop"
    /\ Spend(failed)
    /\ LET o         == Head(sweep.scored.queue)
           opp       == scored_opportunities[o]
           auto      == sweep.scored.auto
           qualified == \/ metCriteria >= 3
                        \/ opp.route_to_outreach
                        \/ opp.overall_score >= 70
           score     == IF qualified THEN totalScore ELSE 0
           effective == IF score # 0 THEN score ELSE opp.overall_score
           to        == recipientEmail(opp)
           sending   == auto /\ resend_api_key /\ to # NULL
           updateOk  == "update" \notin failed
       IN  IF ~qualified /\ effective < 70
           THEN /\ markAsProcessed(o, "skipped_low_score", updateOk)
                /\ UNCHANGED <<resend, outreach_campaigns>>
           ELSE IF "research" \in failed
           THEN UNCHANGED <<resend, outreach_campaigns, scored_opportunities>>
           ELSE IF sending /\ "send" \in failed
           THEN UNCHANGED <<resend, outreach_campaigns, scored_opportunities>>
           ELSE /\ IF sending
                   THEN /\ resend.sweep[to] < MaxDispatch
                        /\ Dispatch(to, "sweep")
                   ELSE UNCHANGED resend
                /\ IF "insert" \notin failed
                   THEN /\ Len(outreach_campaigns) < MaxCampaigns
                        /\ outreach_campaigns' = Append(outreach_campaigns,
                              CampaignRow("scored", o, to,
                                          IF auto THEN "sent" ELSE "draft",
                                          sending))
                        /\ markAsProcessed(o, IF auto THEN "sent" ELSE "draft",
                                           updateOk)
                   ELSE UNCHANGED <<outreach_campaigns, scored_opportunities>>
    /\ ScoredNext
    /\ UNCHANGED <<system_settings, resend_api_key, mfs_leads, market_gaps,
                   email_blocklist, email_conversations, replies>>

\* ------------------------------------------------------------------------
\* Outreach agents over market_gaps: "gated" is the third agent of
\* unnamed/part_003, which reads auto_outreach_enabled; "ungated" is
\* backend/agents/auto-outreach-agent.js
\* ------------------------------------------------------------------------

GapAgents == {"gated", "ungated"}

\* .gte('confidence_score', 0.7).is('outreach_sent', null), and for the
\* gated agent .eq('approved_for_outreach', true)
GapsReady(agent) ==
    {g \in DOMAIN market_gaps :
        /\ market_gaps[g].confidence_score >= MinConfidence
        /\ ~market_gaps[g].outreach_sent
        /\ agent = "gated" => market_gaps[g].approved_for_outreach}

\* status of the campaign row sendOutreach inserts
gapCampaignStatus(agent, auto) ==
    IF agent = "ungated" THEN "sent"
    ELSE IF auto THEN "sent" ELSE "draft"

\* processOutreach up to the start of the loop;
\* failed \subseteq {"settings", "select"}
GapsSweepStart(agent, failed) ==
    /\ sweep[agent].pc = "idle"
    /\ Spend(failed)
    /\ IF "select" \in failed
       THEN UNCHANGED sweep
       ELSE \E q \in OrderedSelections(GapsReady(agent),
                                         Unordered(GapsReady(agent)), GapsLimit) :
              sweep' = [sweep EXCEPT ![agent] =
                          IF q = <<>> THEN SweepIdle
                          ELSE [pc |-> "loop",
                                auto |-> /\ agent = "gated"
                                         /\ autoSendEnabled("settings" \notin failed),
                                queue |-> q, sent |-> FALSE]]
    /\ UNCHANGED <<system_settings, resend_api_key, mfs_leads,
                   scored_opportunities, market_gaps, outreach_campaigns,
                   email_blocklist, email_conversations, resend, replies>>

\* sendOutreach(gap): insert the campaign row and, when the insert
\* succeeded, set the gap's outreach_sent; no email is handed to the
\* provider; failed \subseteq {"insert", "update"}
sendOutreach(agent, failed) ==
    /\ sweep[agent].pc = "loop"
    /\ Spend(failed)
    /\ LET g == Head(sweep[agent].queue)
       IN  IF "insert" \notin failed
           THEN /\ Len(outreach_campaigns) < MaxCampaigns
                /\ outreach_campaigns' = Append(outreach_campaigns,
                      CampaignRow(agent, g, NULL,
                                  gapCampaignStatus(agent, sweep[agent].auto),
                                  FALSE))
                /\ market_gaps' =
                      IF "update" \notin failed
                      THEN [market_gaps EXCEPT ![g].outreach_sent = TRUE]
                      ELSE market_gaps
           ELSE UNCHANGED <<outreach_campaigns, market_gaps>>
    /\ sweep' = [sweep EXCEPT ![agent] =
                   IF Len(sweep[agent].queue) <= 1 THEN SweepIdle
                   ELSE [sweep[agent] EXCEPT !.queue = Tail(sweep[agent].queue)]]
    /\ UNCHANGED <<system_settings, resend_api_key, mfs_leads,
                   scored_opportunities, email_blocklist,
                   email_conversations, resend, replies>>

\* ------------------------------------------------------------------------
\* Reply sweep: processAllReplies of
\* backend/services/ai-conversation-handler.js
\* ------------------------------------------------------------------------

\* .eq('replied_at', true).eq('reply_processed', false)
PendingReplies ==
    {i \in 1..Len(outreach_campaigns) :
        /\ outreach_campaigns[i].replied_at
        /\ ~outreach_campaigns[i].reply_processed}

\* the next campaign of the loop
ReplyNext ==
    sweep' = [sweep EXCEPT !.replies =
                 IF Len(sweep.replies.queue) <= 1 THEN SweepIdle
                 ELSE [sweep.replies EXCEPT !.pc = "handle",
                                            !.queue = Tail(sweep.replies.queue)]]

\* a catch that rethrows: the loop, and with it processAllReplies, ends
ReplyRethrow ==
    sweep' = [sweep EXCEPT !.replies = SweepIdle]

\* the catch of lines 340-342: the error is logged and the loop goes on
ReplyCatch == ReplyNext

\* processAllReplies up to the start of the loop (lines 319-328): an
\* error of the select is thrown; failed \subseteq {"select"}
ReplySweepStart(failed) ==
    /\ sweep.replies.pc = "idle"
    /\ Spend(failed)
    /\ IF "select" \in failed
       THEN UNCHANGED sweep
       ELSE \E q \in OrderedSelections(PendingReplies,
                                       Unordered(PendingReplies), RepliesLimit) :
              sweep' = [sweep EXCEPT !.replies =
                          IF q = <<>> THEN SweepIdle
                          ELSE [pc |-> "handle", auto |-> FALSE,
                                queue |-> q, sent |-> FALSE]]
    /\ UNCHANGED <<system_settings, resend_api_key, mfs_leads, market_gaps,
                   outreach_campaigns, email_blocklist, email_conversations,
                   resend, replies>>

\* await this.handleReply(campaign.id, campaign.reply_text) for the
\* campaign at the head of the loop; when it throws, the catch runs
ReplySweepHandle(found, classAnswer, genAnswer) ==
    /\ sweep.replies.pc = "handle"
    /\ handleReply(Head(sweep.replies.queue), found, classAnswer, genAnswer)
    /\ IF replies'[Len(replies')].threw
       THEN ReplyCatch
       ELSE sweep' = [sweep EXCEPT !.replies.pc = "mark"]

\* update({ reply_processed: true }) (lines 335-338), whose result is not
\* looked at, and the end of the loop body; failed \subseteq {"update"}
ReplySweepMark(failed) ==
    /\ sweep.replies.pc = "mark"
    /\ Spend(failed)
    /\ outreach_campaigns' =
          IF "update" \notin failed
          THEN [outreach_campaigns EXCEPT
                   ![Head(sweep.replies.queue)].reply_processed = TRUE]
          ELSE outreach_campaigns
    /\ ReplyNext
    /\ UNCHANGED <<system_settings, resend_api_key, mfs_leads, market_gaps,
                   email_blocklist, email_conversations, resend, replies>>

\* ------------------------------------------------------------------------
\* Booking service: class AutoBooking of backend/services/domain-extractor.js
\* ------------------------------------------------------------------------

\* .in('status', ['booking_sent', 'interested', 'booking'])
OpenForBooking == {"booking_sent", "interested", "booking"}

\* no syncScheduledMeetings call is running
SyncIdle == [pc |-> "idle", queue |-> <<>>]

NoBookingWork ==
    /\ scheduled_events = <<>>
    /\ sync = SyncIdle
    /\ bookings = <<>>

\* a call of the booking service for campaign cid, kept for the
\* properties; event is the calendar event it was made for
BookingCall(op, event, cid) == [op |-> op, event |-> event, campaign |-> cid]

\* the campaigns the select of recordScheduledMeeting matches
OpenCampaigns(email) ==
    {i \in DOMAIN outreach_campaigns :
        /\ outreach_campaigns[i].recipient_email = email
        /\ outreach_campaigns[i].status \in OpenForBooking}

\* .order('created_at', { ascending: false }).limit(1): rows are kept in
\* the order of their creation
MostRecent(rows) == CHOOSE i \in rows : \A j \in rows : j <= i

\* the oldest row instead of the most recent one
LeastRecent(rows) == CHOOSE i \in rows : \A j \in rows : i <= j

\* the row the select of lines 534-541 returns
selectedCampaign(rows) == MostRecent(rows)

\* recordScheduledMeeting(event, invitee): failed holds the store calls
\* that answer with an error.  An error of the select, or no row, ends the
\* call; the result of the update is not looked at.
recordScheduledMeeting(event, failed) ==
    LET open == OpenCampaigns(scheduled_events[event])
    IN  IF "select" \in failed \/ open = {}
        THEN /\ bookings' = Append(bookings, BookingCall("record", event, 0))
             /\ UNCHANGED outreach_campaigns
        ELSE LET cid == selectedCampaign(open)
             IN  IF "update" \in failed
                 THEN /\ bookings' = Append(bookings,
                                            BookingCall("record", event, 0))
                      /\ UNCHANGED outreach_campaigns
                 ELSE /\ bookings' = Append(bookings,
                                            BookingCall("record", event, cid))
                      /\ outreach_campaigns' =
                            [outreach_campaigns EXCEPT
                                ![cid].status = "meeting_scheduled",
                                ![cid].calendly_event_id = event]

\* syncScheduledMeetings up to its loop (lines 471-488): the active events
\* of the calendar are listed; an error of the request ends the call
SyncStart(failed) ==
    /\ sync.pc = "idle"
    /\ Len(bookings) < MaxBookingCalls
    /\ Spend(failed)
    /\ sync' = IF "list" \in failed \/ scheduled_events = <<>>
               THEN SyncIdle
               ELSE [pc |-> "record",
                     queue |-> [i \in DOMAIN scheduled_events |-> i]]
    /\ bookings' = Append(bookings, BookingCall("sync", 0, 0))
    /\ UNCHANGED <<outreach_campaigns, scheduled_events>>

\* one round of the loop of syncScheduledMeetings (lines 488-496): the
\* invitee of the event is fetched and, when there is one, the meeting
\* is recorded
SyncRecord(failed) ==
    /\ sync.pc = "record"
    /\ Spend(failed)
    /\ IF "invitee" \in failed
       THEN UNCHANGED <<outreach_campaigns, bookings>>
       ELSE recordScheduledMeeting(Head(sync.queue), failed)
    /\ sync' = IF Len(sync.queue) = 1 THEN SyncIdle
               ELSE [sync EXCEPT !.queue = Tail(@)]
    /\ UNCHANGED scheduled_events

\* sendBookingInvitation(campaignId): the campaign is read (an error is
\* thrown), the invitation stored and the status written
sendBookingInvitation(cid, failed) ==
    /\ Len(bookings) < MaxBookingCalls
    /\ sync.pc = "idle"
    /\ Spend(failed)
    /\ IF failed # {}
       THEN /\ bookings' = Append(bookings, BookingCall("invite", 0, 0))
            /\ UNCHANGED <<outreach_campaigns, email_conversations>>
       ELSE /\ bookings' = Append(bookings, BookingCall("invite", 0, cid))
            /\ email_conversations' = Append(email_conversations,
                  [campaign_id |-> cid, direction |-> "outgoing",
                   classification |-> NULL, reply |-> 0])
            /\ outreach_campaigns' =
                  [outreach_campaigns EXCEPT ![cid].status = "booking_sent"]
    /\ UNCHANGED <<scheduled_events, sync>>

\* cancelMeeting(campaignId, reason): the event of the campaign, if it
\* has one, is cancelled in the calendar (an error is thrown), then the
\* status is written
cancelMeeting(cid, failed) ==
    /\ Len(bookings) < MaxBookingCalls
    /\ sync.pc = "idle"
    /\ Spend(failed)
    /\ failed # {} => outreach_campaigns[cid].calendly_event_id # NoEvent
    /\ IF failed # {}
       THEN /\ bookings' = Append(bookings, BookingCall("cancel", 0, 0))
            /\ UNCHANGED outreach_campaigns
       ELSE /\ bookings' = Append(bookings, BookingCall("cancel", 0, cid))
            /\ outreach_campaigns' =
                  [outreach_campaigns EXCEPT ![cid].status = "meeting_cancelled"]
    /\ UNCHANGED <<scheduled_events, sync>>

\* ------------------------------------------------------------------------
\* Agent endpoints of backend/server.js
\* ------------------------------------------------------------------------

\* the keys of agentMap
AgentNames == {"gap-finder", "auto-outreach", "auto-delivery"}

\* agentProcesses[name] of a name without entry
NoProcess == 0

\* the keys of autoStartAgents' agentMap (server.js:2680-2684)
AutoStarted == {"gap-finder", "auto-delivery"}

\* no callback is pending: neither autoStartAgents (server.js:2769) nor
\* an autoStartSingleAgent of an agent name
NoTimers == [n \in AgentNames \cup {"autoStartAgents"} |-> 0]

\* server.js:964-969
NoAgentWork ==
    /\ agentProcesses = [n \in AgentNames |-> NoProcess]
    /\ agentStats = [n \in AgentNames |-> "stopped"]
    /\ children = <<>>
    /\ restartTimers = NoTimers

\* child.kill(): the signal is sent; the child's 'exit' event comes later
kill(procs, pid) ==
    IF procs[pid].state = "live"
    THEN [procs EXCEPT ![pid].state = "killed"]
    ELSE procs

\* POST /api/agents/:agentName/start (lines 1172-1231): a tracked child
\* is killed and untracked, a new one spawned and tracked
StartAgent(name) ==
    /\ Len(children) < MaxSpawns
    /\ LET old     == agentProcesses[name]
           stopped == IF old # NoProcess THEN kill(children, old)
                      ELSE children
       IN  children' = Append(stopped, [name |-> name, state |-> "live",
                                        by |-> "endpoint", code |-> 0])
    /\ agentProcesses' = [agentProcesses EXCEPT ![name] = Len(children) + 1]
    /\ agentStats' = [agentStats EXCEPT ![name] = "running"]

\* POST /api/agents/:agentName/stop (lines 1234-1262)
StopAgent(name) ==
    IF agentProcesses[name] = NoProcess
    THEN UNCHANGED agentVars
    ELSE /\ children' = kill(children, agentProcesses[name])
         /\ agentProcesses' = [agentProcesses EXCEPT ![name] = NoProcess]
         /\ agentStats' = [agentStats EXCEPT ![name] = "stopped"]

\* agent.on('exit', ...) (lines 1209-1213): the handler names the agent,
\* not the child
onExit(name, pid) ==
    /\ agentStats' = [agentStats EXCEPT ![name] = "stopped"]
    /\ agentProcesses' = [agentProcesses EXCEPT ![name] = NoProcess]

\* a child process ends, killed or on its own, and its 'exit' event is
\* delivered
ChildExit(pid) ==
    /\ pid \in DOMAIN children
    /\ children[pid].by = "endpoint"
    /\ children[pid].state # "gone"
    /\ children' = [children EXCEPT ![pid].state = "gone"]
    /\ onExit(children[pid].name, pid)

\* the spawn of autoStartAgents and autoStartSingleAgent: the child is
\* tracked and the status set to 'running'; by names the function
spawnTracked(procs, tracked, stats, name, by) ==
    [children       |-> Append(procs, [name |-> name, state |-> "live",
                                       by |-> by, code |-> 0]),
     agentProcesses |-> [tracked EXCEPT ![name] = Len(procs) + 1],
     agentStats     |-> [stats EXCEPT ![name] = "running"]]

\* autoStartAgents (lines 2675-2724), called once by the timer of line
\* 2769: the loop spawns gap-finder, then auto-delivery, whatever is
\* tracked
AutoStartAgents ==
    /\ restartTimers["autoStartAgents"] > 0
    /\ Len(children) + 2 <= MaxSpawns
    /\ LET first  == spawnTracked(children, agentProcesses, agentStats,
                                  "gap-finder", "autoStartAgents")
           second == spawnTracked(first.children, first.agentProcesses,
                                  first.agentStats, "auto-delivery",
                                  "autoStartAgents")
       IN  /\ children' = second.children
           /\ agentProcesses' = second.agentProcesses
           /\ agentStats' = second.agentStats
    /\ restartTimers' = [restartTimers EXCEPT !["autoStartAgents"] = @ - 1]

\* autoStartSingleAgent(agentName, agentPath) (lines 2727-2760), called by
\* the timer of line 2711
AutoStartSingleAgent(name) ==
    /\ restartTimers[name] > 0
    /\ restartTimers' = [restartTimers EXCEPT ![name] = @ - 1]
    /\ IF agentProcesses[name] # NoProcess
       THEN UNCHANGED <<children, agentProcesses, agentStats>>
       ELSE /\ Len(children) < MaxSpawns
            /\ LET started == spawnTracked(children, agentProcesses,
                                           agentStats, name,
                                           "autoStartSingleAgent")
               IN  /\ children' = started.children
                   /\ agentProcesses' = started.agentProcesses
                   /\ agentStats' = started.agentStats

\* whether the 'exit' handler of a child schedules a restart: the handler
\* of autoStartAgents does when code !== 0 (lines 2708-2712), the handler
\* of autoStartSingleAgent never does (lines 2744-2748)
scheduleRestart(by, code) == by = "autoStartAgents" /\ code # 0

\* the exit codes of a child: a child that was killed runs its SIGTERM
\* handler and exits with 0 (agents/gap-finder-agent.js:127-139), a child
\* that ends on its own exits with 0 or, after an error, with 1 (line 31)
ExitCodes(child) == IF child.state = "killed" THEN {0} ELSE {0, 1}

\* the 'exit' event of a child spawned by autoStartAgents or
\* autoStartSingleAgent
AutoChildExit(pid, code) ==
    /\ pid \in DOMAIN children
    /\ children[pid].by # "endpoint"
    /\ children[pid].state # "gone"
    /\ code \in ExitCodes(children[pid])
    /\ children' = [children EXCEPT ![pid].state = "gone", ![pid].code = code]
    /\ onExit(children[pid].name, pid)
    /\ restartTimers' =
          IF scheduleRestart(children[pid].by, code)
          THEN [restartTimers EXCEPT ![children[pid].name] = @ + 1]
          ELSE restartTimers

\* ------------------------------------------------------------------------
\* Delivery agents: unnamed/part_004, which reads auto_delivery_enabled
\* ("gated"), and backend/agents/auto-delivery-agent.js, which does not
\* ("ungated")
\* ------------------------------------------------------------------------

DeliveryAgents == {"gated", "ungated"}

\* .limit(5) of processDeliveries
DeliveryLimit == 5

NoDeliveryWork ==
    /\ auto_delivery_enabled = "false"
    /\ solution_deliveries = <<>>
    /\ delivery = [a \in DeliveryAgents |-> SweepIdle]

\* .eq('status', 'replied').is('delivery_sent', null)
DeliveryReady ==
    {i \in DOMAIN outreach_campaigns :
        /\ outreach_campaigns[i].status = "replied"
        /\ outreach_campaigns[i].delivery_sent = NULL}

\* const autoDeliveryEnabled = settings?.setting_value === 'true'
autoDeliveryEnabled(readOk) == readOk /\ auto_delivery_enabled = "true"

\* the next campaign of the loop
DeliveryNext(agent) ==
    delivery' = [delivery EXCEPT ![agent] =
                    IF Len(delivery[agent].queue) <= 1 THEN SweepIdle
                    ELSE [@ EXCEPT !.queue = Tail(@)]]

\* processDeliveries up to its loop; failed \subseteq {"settings",
\* "campaigns"}.  Only the gated agent reads the setting.
DeliveryStart(agent, failed) ==
    /\ delivery[agent].pc = "idle"
    /\ "settings" \in failed => agent = "gated"
    /\ Spend(failed)
    /\ IF "campaigns" \in failed
       THEN UNCHANGED delivery
       ELSE \E q \in OrderedSelections(DeliveryReady, Unordered(DeliveryReady),
                                       DeliveryLimit) :
              delivery' = [delivery EXCEPT ![agent] =
                             IF q = <<>> THEN SweepIdle
                             ELSE [pc |-> "deliver",
                                   auto |-> autoDeliveryEnabled(
                                               "settings" \notin failed),
                                   queue |-> q, sent |-> FALSE]]
    /\ UNCHANGED <<outreach_campaigns, solution_deliveries,
                   auto_delivery_enabled>>

\* the row deliverSolution inserts: the gated agent writes the status and
\* the approval flag from the setting, the ungated agent writes
\* 'delivered' and leaves the flag to the column's default
deliveryData(agent, cid, auto) ==
    IF agent = "gated"
    THEN [campaign_id |-> cid,
          status |-> IF auto THEN "delivered" ELSE "draft",
          approved_for_delivery |-> auto]
    ELSE [campaign_id |-> cid, status |-> "delivered",
          approved_for_delivery |-> FALSE]

\* deliverSolution(campaign): the delivery is inserted and, when the
\* insert succeeded (and, in the gated agent, the setting is on), the
\* campaign marked; failed \subseteq {"insert", "update"}
deliverSolution(agent, failed) ==
    /\ delivery[agent].pc = "deliver"
    /\ Spend(failed)
    /\ LET cid  == Head(delivery[agent].queue)
           auto == delivery[agent].auto
           mark == agent = "ungated" \/ auto
       IN  IF "insert" \in failed
           THEN UNCHANGED <<solution_deliveries, outreach_campaigns>>
           ELSE /\ Len(solution_deliveries) < MaxDeliveries
                /\ solution_deliveries' =
                      Append(solution_deliveries,
                             deliveryData(agent, cid, auto))
                /\ outreach_campaigns' =
                      IF mark /\ "update" \notin failed
                      THEN [outreach_campaigns EXCEPT
                               ![cid].delivery_sent = "true",
                               ![cid].status = "delivered"]
                      ELSE outreach_campaigns
    /\ DeliveryNext(agent)
    /\ UNCHANGED auto_delivery_enabled

\* ------------------------------------------------------------------------
\* Scorer (backend/services/intelligent-scorer.js)
\* ------------------------------------------------------------------------

\* the keyword lists of detectSignals and scoreQualifiedLead
needsHelpKeywords ==
    {"need help", "looking for", "anyone know", "recommendations",
     "struggle with", "problem with", "issue with", "difficulty",
     "cant figure out", "stuck on", "how to", "best way to"}

hiringKeywords ==
    {"hiring", "looking to hire", "need developer", "need designer",
     "freelancer", "contractor", "agency", "consultant", "full-time",
     "part-time", "seeking", "recruiting"}

sourcingSolutionsKeywords ==
    {"tool for", "software for", "platform for", "service for",
     "solution for", "alternative to", "better than", "recommend",
     "which tool", "what software", "looking at"}

fundingMentionedKeywords ==
    {"funded", "raised", "series a", "series b", "seed round",
     "venture", "investors", "valuation", "$", "million", "k funding"}

payingForToolsKeywords ==
    {"subscription", "paying for", "using", "license", "per month",
     "annual plan", "pricing", "cost"}

budgetSignalsKeywords ==
    {"budget", "spend", "invest", "allocate", "worth it", "roi",
     "return", "revenue", "profitable", "customers"}

painPointDetectedKeywords ==
    {"problem", "issue", "challenge", "struggle", "difficult",
     "frustrating", "slow", "manual", "time consuming", "inefficient",
     "bottleneck", "blocker", "broken"}

urgencyHighKeywords ==
    {"asap", "urgent", "immediately", "right now", "today",
     "this week", "deadline", "critical", "emergency"}

urgencyMediumKeywords ==
    {"soon", "next week", "this month", "looking to start",
     "planning to", "need by"}

clientAcquisitionFitKeywords ==
    {"lead generation", "get clients", "find customers", "sales",
     "outreach", "marketing", "growth", "acquisition", "convert",
     "closing deals", "pipeline", "prospecting"}

painKeywords ==
    {"problem", "issue", "challenge", "struggle", "difficult",
     "frustrating", "slow", "manual", "time consuming", "inefficient",
     "bottleneck", "blocker", "broken", "failing", "losing money"}

\* Math.min
Min(a, b) == IF a < b THEN a ELSE b

\* String.prototype.includes
includes(text, keyword) ==
    \E i \in 0..(Len(text) - Len(keyword)) :
        SubSeq(text, i + 1, i + Len(keyword)) = keyword

\* the capital letters that occur in the texts of the model
lowerOf == [c \in {"A", "P", "S"} |->
               IF c = "A" THEN "a" ELSE IF c = "P" THEN "p" ELSE "s"]

\* String.prototype.toLowerCase on a text: every character is mapped,
\* the text being split in halves down to single characters
RECURSIVE lowerCase(_)
lowerCase(text) ==
    IF text = "" THEN ""
    ELSE IF Len(text) = 1
    THEN (IF text \in DOMAIN lowerOf THEN lowerOf[text] ELSE text)
    ELSE LET half == Len(text) \div 2
         IN  lowerCase(SubSeq(text, 1, half))
                 \o lowerCase(SubSeq(text, half + 1, Len(text)))

\* JSON.stringify(opportunity): a key whose value is undefined is left
\* out; overall_score 0 and route_to_outreach "undefined" stand for a
\* missing key, NULL for a null value
stringify(opp) ==
    "{\"pain_point\":\"" \o opp.pain_point \o "\""
      \o (IF opp.overall_score = 0 THEN ""
          ELSE ",\"overall_score\":" \o ToString(opp.overall_score))
      \o (IF opp.route_to_outreach = "undefined" THEN ""
          ELSE ",\"route_to_outreach\":" \o opp.route_to_outreach)
      \o ",\"contact_email\":"
      \o (IF opp.contact_email = NULL THEN NULL
          ELSE "\"" \o opp.contact_email \o "\"")
      \o ",\"company_domain\":"
      \o (IF opp.company_domain = NULL THEN NULL
          ELSE "\"" \o opp.company_domain \o "\"")
      \o "}"

\* containsAny(text, keywords); the keywords are lower case already
containsAny(text, keywords) ==
    \E keyword \in keywords : includes(text, keyword)

detectSignals(opp) ==
    LET text == lowerCase(stringify(opp))
    IN  [needsHelp            |-> containsAny(text, needsHelpKeywords),
         hiring               |-> containsAny(text, hiringKeywords),
         sourcingSolutions    |-> containsAny(text, sourcingSolutionsKeywords),
         fundingMentioned     |-> containsAny(text, fundingMentionedKeywords),
         payingForTools       |-> containsAny(text, payingForToolsKeywords),
         budgetSignals        |-> containsAny(text, budgetSignalsKeywords),
         painPointDetected    |-> containsAny(text, painPointDetectedKeywords),
         urgencyHigh          |-> containsAny(text, urgencyHighKeywords),
         urgencyMedium        |-> containsAny(text, urgencyMediumKeywords),
         clientAcquisitionFit |-> containsAny(text, clientAcquisitionFitKeywords),
         hasContactInfo       |-> \/ opp.company_domain # NULL
                                  \/ opp.contact_email # NULL
                                  \/ opp.route_to_outreach = "true"]

\* (opportunity.overall_score || 0) >= 71
hasHighScoreAbove(opp) == opp.overall_score >= 71

\* (opportunity.overall_score || 0) >= 70
hasHighScore(opp) == opp.overall_score >= 70

\* opportunity.route_to_outreach === true
isRoutedToOutreach(opp) == opp.route_to_outreach = "true"

\* the object qualificationCriteria of preQualify
qualificationCriteria(signals, highScore, routed) ==
    [lookingForSolutions |-> \/ signals.needsHelp
                             \/ signals.hiring
                             \/ signals.sourcingSolutions
                             \/ highScore,
     hasBudget           |-> \/ signals.fundingMentioned
                             \/ signals.payingForTools
                             \/ signals.budgetSignals
                             \/ highScore,
     relevantPainPoint   |-> signals.painPointDetected \/ highScore,
     reachable           |-> signals.hasContactInfo \/ routed]

\* Object.values(qualificationCriteria).filter(v => v === true).length
metCriteria(criteria) ==
    Cardinality({k \in DOMAIN criteria : criteria[k]})

\* isQualified when all four criteria are asked for
isQualifiedAllFour(met, routed, highScore) ==
    met >= 4 \/ routed \/ highScore

\* const isQualified = metCriteria >= 3 || isRoutedToOutreach || hasHighScore
isQualified(met, routed, highScore) ==
    met >= 3 \/ routed \/ highScore

preQualify(opp) ==
    LET signals  == detectSignals(opp)
        criteria == qualificationCriteria(signals, hasHighScore(opp),
                                          isRoutedToOutreach(opp))
    IN  [qualified |-> isQualified(metCriteria(criteria),
                                   isRoutedToOutreach(opp), hasHighScore(opp)),
         criteria  |-> criteria,
         signals   |-> signals]

\* the number of pain keywords the text includes
painHits(text) ==
    Cardinality({keyword \in painKeywords : includes(text, keyword)})

\* the sum of hits times 0.8 cut to an integer (Math.floor)
roundedPainDown(hits) == (8 * hits) \div 10

\* Math.round(hits * 0.8): the sum of hits times 0.8, rounded to the
\* nearest integer (a half never occurs)
roundedPain(hits) == (8 * hits + 5) \div 10

\* painSeverity without Math.min(10, ...)
painSeverityUnclamped(text) == roundedPain(painHits(text))

\* lines 125-134 of scoreQualifiedLead
painSeverity(text) == Min(10, roundedPain(painHits(text)))

\* lines 137-141
budgetLikelihood(signals) ==
    Min(10, (IF signals.fundingMentioned THEN 4 ELSE 0)
              + (IF signals.payingForTools THEN 3 ELSE 0)
              + (IF signals.budgetSignals THEN 3 ELSE 0))

\* lines 144-147
urgency(signals) ==
    IF signals.urgencyHigh THEN 9
    ELSE IF signals.urgencyMedium THEN 7
    ELSE IF signals.needsHelp \/ signals.hiring THEN 6
    ELSE 5

\* serviceFit with the needsHelp bonus at 5
serviceFitGenerous(signals) ==
    Min(10, (IF signals.clientAcquisitionFit THEN 5 ELSE 0)
              + (IF signals.needsHelp THEN 5 ELSE 0)
              + (IF signals.hiring \/ signals.sourcingSolutions THEN 3 ELSE 0))

\* lines 150-154
serviceFit(signals) ==
    Min(10, (IF signals.clientAcquisitionFit THEN 5 ELSE 0)
              + (IF signals.needsHelp THEN 2 ELSE 0)
              + (IF signals.hiring \/ signals.sourcingSolutions THEN 3 ELSE 0))

\* lines 159-162
recommendation(totalScore) ==
    IF totalScore >= 30 THEN "PRIORITY"
    ELSE IF totalScore >= 25 THEN "QUALIFIED"
    ELSE IF totalScore >= 20 THEN "MAYBE"
    ELSE "SKIP"

scoreQualifiedLead(opp) ==
    LET text    == lowerCase(stringify(opp))
        signals == detectSignals(opp)
        pain    == painSeverity(text)
        budget  == budgetLikelihood(signals)
        urgent  == urgency(signals)
        fit     == serviceFit(signals)
        total   == pain + budget + urgent + fit
    IN  [painSeverity     |-> pain,
         budgetLikelihood |-> budget,
         urgency          |-> urgent,
         serviceFit       |-> fit,
         totalScore       |-> total,
         recommendation   |-> recommendation(total)]

\* the action of processOpportunity with the tiers one point higher
actionOfShifted(totalScore) ==
    IF totalScore >= 31 THEN "PRIORITY"
    ELSE IF totalScore >= 26 THEN "QUALIFIED"
    ELSE IF totalScore >= 21 THEN "MAYBE"
    ELSE "SKIP"

\* lines 212-219 of processOpportunity
actionOf(totalScore) ==
    IF totalScore >= 30 THEN "PRIORITY"
    ELSE IF totalScore >= 25 THEN "QUALIFIED"
    ELSE IF totalScore >= 20 THEN "MAYBE"
    ELSE "SKIP"

\* the object processOpportunity returns for a scored lead; invoked lists
\* the scorer's steps the call went through
scoredResult(qualification, lead) ==
    [qualified      |-> TRUE,
     action         |-> actionOf(lead.totalScore),
     score          |-> lead.totalScore,
     breakdown      |-> [painSeverity     |-> lead.painSeverity,
                         budgetLikelihood |-> lead.budgetLikelihood,
                         urgency          |-> lead.urgency,
                         serviceFit       |-> lead.serviceFit],
     recommendation |-> lead.recommendation,
     preQualified   |-> qualification.qualified,
     invoked        |-> {"preQualify", "scoreQualifiedLead"}]

\* processOpportunity without the early return of lines 199-206
processOpportunityUnfiltered(opp) ==
    scoredResult(preQualify(opp), scoreQualifiedLead(opp))

processOpportunity(opp) ==
    LET qualification == preQualify(opp)
    IN  IF ~qualification.qualified
        THEN [qualified    |-> FALSE,
              action       |-> "SKIP",
              score        |-> 0,
              preQualified |-> qualification.qualified,
              invoked      |-> {"preQualify"}]
        ELSE scoredResult(qualification, scoreQualifiedLead(opp))

\* the phrases the texts of the model are made of
Phrases ==
    <<"struggling", "need help", "funded", "lead generation", "ASAP",
      "hiring soon",
      "a problem, an issue, a challenge: we struggle, it is difficult, "
        \o "frustrating, slow, manual, time consuming, inefficient, "
        \o "a bottleneck, a blocker, broken, failing, losing money">>

\* the text made of the phrases numbered in chosen, from phrase i on
RECURSIVE textOf(_, _)
textOf(chosen, i) ==
    IF i > Len(Phrases) THEN ""
    ELSE (IF i \in chosen THEN Phrases[i] \o ". " ELSE "")
             \o textOf(chosen, i + 1)

\* the records handed to the scorer
Opportunities ==
    [pain_point        : {textOf(chosen, 1) :
                             chosen \in {c \in SUBSET (1..Len(Phrases)) :
                                            Cardinality(c) <= MaxPhrases}},
     overall_score     : {0, 60, 70},
     route_to_outreach : {"undefined", "false", "true"},
     contact_email     : {NULL, "a@x.com"},
     company_domain    : {NULL, "x.com"}]

\* the severity list in the order of the source
painKeywordOrder ==
    <<"problem", "issue", "challenge", "struggle", "difficult",
      "frustrating", "slow", "manual", "time consuming", "inefficient",
      "bottleneck", "blocker", "broken", "failing", "losing money">>

\* a text naming k keywords of the severity list, from place start on
\* and around the end of the list
RECURSIVE painText(_, _)
painText(start, k) ==
    IF k = 0 THEN "Our team: "
    ELSE painText(start, k - 1) \o "a "
             \o painKeywordOrder[((start + k - 2) % Len(painKeywordOrder)) + 1]
             \o " thing, "

\* the records whose text names 0 to 15 keywords of the severity list
PainOpportunities ==
    [pain_point        : {painText(start, k) :
                             start \in 1..MaxPainStarts,
                             k \in 0..Len(painKeywordOrder)},
     overall_score     : {0},
     route_to_outreach : {"undefined", "false", "true"},
     contact_email     : {"a@x.com"},
     company_domain    : {NULL}]

\* no call of the scorer has been made
NoScoring == [pc |-> "idle", call |-> NULL]

\* one call of preQualify, scoreQualifiedLead or processOpportunity on the
\* opportunity
PreQualifyCall ==
    /\ scoring.pc = "idle"
    /\ scoring' = [pc |-> "done", call |-> "preQualify",
                   result |-> preQualify(opportunity)]
    /\ UNCHANGED opportunity

ScoreQualifiedLeadCall ==
    /\ scoring.pc = "idle"
    /\ scoring' = [pc |-> "done", call |-> "scoreQualifiedLead",
                   result |-> scoreQualifiedLead(opportunity)]
    /\ UNCHANGED opportunity

ProcessOpportunityCall ==
    /\ scoring.pc = "idle"
    /\ scoring' = [pc |-> "done", call |-> "processOpportunity",
                   result |-> processOpportunity(opportunity)]
    /\ UNCHANGED opportunity

\* the scorer at rest
NoScorerWork ==
    /\ opportunity = NULL
    /\ scoring = NoScoring

\* ------------------------------------------------------------------------
\* Initial states and specifications
\* ------------------------------------------------------------------------

Workers == 1..MaxWorkers

NoMessages == [sweep    |-> [e \in Emails |-> 0],
               endpoint |-> [e \in Emails |-> 0],
               blocked  |-> {}]

IdleSweeps == [mfs |-> [w \in Workers |-> SweepIdle], scored |-> SweepIdle,
               gated |-> SweepIdle, ungated |-> SweepIdle,
               replies |-> SweepIdle]

\* auto_outreach_enabled is 'true', 'false' or has no row
SettingValues == {"true", "false", NULL}

OppRow(q, s, r, ce, de) ==
    [qualified |-> q, overall_score |-> s, batch_id |-> NoBatch,
     route_to_outreach |-> r, contact_email |-> ce, discovered_email |-> de,
     outreach_sent |-> FALSE, outreach_status |-> NULL]

\* rows of scored_opportunities as the batch processor sees them
BatchOppRows ==
    {OppRow(q, s, FALSE, NULL, NULL) : q \in BOOLEAN, s \in ScoreValues}

\* rows of scored_opportunities as the outreach sweep sees them
OutreachOppRows ==
    {OppRow(TRUE, 85, TRUE, "a@x.com", NULL),
     OppRow(TRUE, 85, TRUE, NULL, "a@x.com"),
     OppRow(TRUE, 85, TRUE, NULL, NULL),
     OppRow(TRUE, 60, TRUE, "b@x.com", NULL),
     OppRow(TRUE, 85, FALSE, "b@x.com", NULL)}

MfsRow(e, r, st, f) ==
    [contact_email |-> e, lead_research |-> r, outreach_status |-> st,
     fit_score |-> f]

MfsLeadRows ==
    {MfsRow("a@x.com", "research", NULL, 90),
     MfsRow("a@x.com", "research", "pending", 60),
     MfsRow("b@x.com", "research", NULL, 60),
     MfsRow(NULL, "research", NULL, 90),
     MfsRow("a@x.com", NULL, NULL, 90)}

GapRows == [confidence_score : {5, 8}, approved_for_outreach : BOOLEAN,
            outreach_sent : {FALSE}]

ReplyCampaignRows ==
    {CampaignRow("mfs", 1, e, "sent", TRUE) : e \in {"a@x.com", "b@x.com"}}

NoBatchWork ==
    /\ processing_batches = <<>>
    /\ calls = [c \in Callers |-> CallIdle]

\* no service outside the outreach agents has been called
NoServiceWork ==
    /\ completions = <<>>
    /\ inventory = NoReport
    /\ NoBookingWork
    /\ NoAgentWork
    /\ NoDeliveryWork

\* the outreach side at rest: no rows, no sweep running
NoOutreachWork ==
    /\ email_blocklist = {}
    /\ email_conversations = <<>>
    /\ resend = NoMessages
    /\ sweep = IdleSweeps
    /\ replies = <<>>
    /\ faults = 0

InitBatch ==
    /\ scored_opportunities \in [Leads -> BatchOppRows]
    /\ system_settings = "false"
    /\ resend_api_key = FALSE
    /\ mfs_leads = <<>>
    /\ market_gaps = <<>>
    /\ outreach_campaigns = <<>>
    /\ NoOutreachWork
    /\ NoBatchWork
    /\ NoServiceWork
    /\ NoScorerWork

NextBatch == CreateBatchCall

\* rows of processing_batches that are open
OpenBatchRows == [status : {"created", "sending"}, batch_size : {batchSize}]

\* rows of scored_opportunities that are in a batch or wait for one, with
\* or without an outreach status
BatchedOppRows ==
    {[OppRow(TRUE, 30, FALSE, NULL, NULL) EXCEPT
         !.batch_id = b, !.outreach_status = st, !.outreach_sent = (st # NULL)] :
        b \in {NoBatch} \cup (1..MaxBatches), st \in {NULL, "sent"}}

\* batches exist, with leads assigned to them, and completeBatch is called
InitComplete ==
    /\ scored_opportunities \in [Leads -> BatchedOppRows]
    /\ processing_batches \in [1..MaxBatches -> OpenBatchRows]
    /\ calls = [c \in Callers |-> CallIdle]
    /\ system_settings = "false"
    /\ resend_api_key = FALSE
    /\ mfs_leads = <<>>
    /\ market_gaps = <<>>
    /\ outreach_campaigns = <<>>
    /\ NoOutreachWork
    /\ NoScorerWork
    /\ NoServiceWork

CompleteBatchMarkStep ==
    /\ \E batchId \in 1..(MaxBatches + 1) :
         \E updateOk \in BOOLEAN : CompleteBatchMark(batchId, updateOk)
    /\ UNCHANGED <<outreachVars, scorerVars, inventory, bookingVars,
                   agentVars, deliveryVars>>

CompleteBatchNextStep ==
    /\ \E i \in DOMAIN completions :
         \E c \in Callers :
           \E fault \in StoreFaults : CompleteBatchNext(i, c, fault)
    /\ UNCHANGED <<outreachVars, scorerVars, inventory, bookingVars,
                   agentVars, deliveryVars>>

NextComplete ==
    \/ CompleteBatchMarkStep
    \/ CompleteBatchNextStep
    \/ CreateBatchCall

SpecComplete == InitComplete /\ [][NextComplete]_vars

SpecBatch == InitBatch /\ [][NextBatch]_vars

\* the statuses of a batch (batch-processor.js:38, 65, 117, 153)
BatchStatuses ==
    {"created", "researching", "ready_to_send", "sending", "complete"}

\* the batches of one client so far: all complete but, maybe, the last
BatchHistories ==
    {h \in UNION {[1..n -> [status : BatchStatuses, batch_size : {batchSize}]] :
                     n \in 0..MaxBatches} :
        \A b \in DOMAIN h : b < Len(h) => h[b].status = "complete"}

\* a full batch waits in the inventory, at most one batch is open, and
\* createBatch and completeBatch are called
InitRelease ==
    /\ scored_opportunities = [l \in Leads |-> OppRow(TRUE, 30, FALSE, NULL, NULL)]
    /\ processing_batches \in BatchHistories
    /\ calls = [c \in Callers |-> CallIdle]
    /\ system_settings = "false"
    /\ resend_api_key = FALSE
    /\ mfs_leads = <<>>
    /\ market_gaps = <<>>
    /\ outreach_campaigns = <<>>
    /\ NoOutreachWork
    /\ NoScorerWork
    /\ NoServiceWork

SpecRelease == InitRelease /\ [][NextComplete]_vars

\* one call of updateBatchStatus(batchId, status)
UpdateBatchStatusStep ==
    /\ \E batchId \in 1..(MaxBatches + 1) :
         \E status \in BatchStatuses :
           \E updateOk \in BOOLEAN :
              processing_batches' = updateBatchStatus(batchId, status, updateOk)
    /\ UNCHANGED <<outreachVars, scored_opportunities, calls, scorerVars,
                   serviceVars>>

NextStatus ==
    \/ UpdateBatchStatusStep
    \/ CompleteBatchMarkStep
    \/ CompleteBatchNextStep

SpecStatus == InitRelease /\ [][NextStatus]_vars

\* rows of scored_opportunities, in a batch or not
InventoryOppRows ==
    {[OppRow(q, s, FALSE, NULL, NULL) EXCEPT !.batch_id = b] :
        q \in BOOLEAN, s \in ScoreValues, b \in {NoBatch, 1}}

\* leads are in the inventory and getInventoryStatus is called
InitInventory ==
    /\ scored_opportunities \in [Leads -> InventoryOppRows]
    /\ processing_batches \in [1..1 -> OpenBatchRows]
    /\ calls = [c \in Callers |-> CallIdle]
    /\ system_settings = "false"
    /\ resend_api_key = FALSE
    /\ mfs_leads = <<>>
    /\ market_gaps = <<>>
    /\ outreach_campaigns = <<>>
    /\ NoOutreachWork
    /\ NoScorerWork
    /\ NoServiceWork

GetInventoryStatusStep ==
    /\ GetInventoryStatusCall
    /\ UNCHANGED <<outreachVars, scorerVars, bookingVars, agentVars,
                   deliveryVars>>

NextInventory == GetInventoryStatusStep

SpecInventory == InitInventory /\ [][NextInventory]_vars

InitReply ==
    /\ outreach_campaigns \in [1..MaxReplyCampaigns -> ReplyCampaignRows]
    /\ system_settings = "false"
    /\ resend_api_key = FALSE
    /\ mfs_leads = <<>>
    /\ market_gaps = <<>>
    /\ scored_opportunities = <<>>
    /\ NoOutreachWork
    /\ NoBatchWork
    /\ NoServiceWork
    /\ NoScorerWork

NextReply == HandleReplyCall

SpecReply == InitReply /\ [][NextReply]_vars

InitMfs ==
    /\ system_settings \in SettingValues
    /\ resend_api_key \in BOOLEAN
    /\ mfs_leads \in [1..MaxMfsLeads -> MfsLeadRows]
    /\ market_gaps = <<>>
    /\ scored_opportunities = <<>>
    /\ outreach_campaigns = <<>>
    /\ NoOutreachWork
    /\ NoBatchWork
    /\ NoServiceWork
    /\ NoScorerWork

\* the variables the outreach agents and the endpoints leave alone
batchVars == <<processing_batches, calls, scorerVars, serviceVars>>

MfsSweepStartStep ==
    /\ \E w \in DOMAIN sweep.mfs : \E failed \in SUBSET {"settings", "leads"} :
          MfsSweepStart(w, failed)
    /\ UNCHANGED <<scored_opportunities, batchVars>>

MfsCheckStep ==
    /\ \E w \in DOMAIN sweep.mfs : \E written \in {"ok", "poor", "throws"} :
          \E failed \in SUBSET {"query", "update"} : MfsCheck(w, written, failed)
    /\ UNCHANGED <<scored_opportunities, batchVars>>

MfsSendStep ==
    /\ \E w \in DOMAIN sweep.mfs : \E failed \in SUBSET {"send", "update"} :
          MfsSend(w, failed)
    /\ UNCHANGED <<scored_opportunities, batchVars>>

MfsCreateCampaignStep ==
    /\ \E w \in DOMAIN sweep.mfs : \E failed \in SUBSET {"insert"} :
          MfsCreateCampaign(w, failed)
    /\ UNCHANGED <<scored_opportunities, batchVars>>

MfsMarkStep ==
    /\ \E w \in DOMAIN sweep.mfs : \E failed \in SUBSET {"update"} : MfsMark(w, failed)
    /\ UNCHANGED <<scored_opportunities, batchVars>>

UnsubscribeGetStep ==
    /\ \E e \in Emails : UnsubscribeGet(e)
    /\ UNCHANGED <<scored_opportunities, batchVars>>

UnsubscribePostStep ==
    /\ \E e \in Emails : UnsubscribePost(e)
    /\ UNCHANGED <<scored_opportunities, batchVars>>

SendEmailEndpointStep ==
    /\ \E e \in Emails : \E failed \in SUBSET {"send"} :
          SendEmailEndpoint(e, failed)
    /\ UNCHANGED <<scored_opportunities, batchVars>>

NextMfs ==
    \/ MfsSweepStartStep
    \/ MfsCheckStep
    \/ MfsSendStep
    \/ MfsCreateCampaignStep
    \/ MfsMarkStep
    \/ UnsubscribeGetStep
    \/ UnsubscribePostStep

SpecMfs == InitMfs /\ [][NextMfs]_vars

\* two sweeps of the mfs_leads agent running at the same time: two agent
\* processes, or a tick of the interval of start() that fires while the
\* sweep of the previous tick is still running
TwoSweeps == [w \in {1, 2} |-> SweepIdle]

InitMfsConcurrent ==
    /\ system_settings = "true"
    /\ resend_api_key = TRUE
    /\ mfs_leads \in [1..MaxMfsLeads -> MfsLeadRows]
    /\ market_gaps = <<>>
    /\ scored_opportunities = <<>>
    /\ outreach_campaigns = <<>>
    /\ email_blocklist = {}
    /\ email_conversations = <<>>
    /\ resend = NoMessages
    /\ sweep = [IdleSweeps EXCEPT !.mfs = TwoSweeps]
    /\ replies = <<>>
    /\ faults = 0
    /\ NoBatchWork
    /\ NoServiceWork
    /\ NoScorerWork

NextMfsConcurrent ==
    \/ MfsSweepStartStep
    \/ MfsCheckStep
    \/ MfsSendStep
    \/ MfsCreateCampaignStep
    \/ MfsMarkStep

SpecMfsConcurrent == InitMfsConcurrent /\ [][NextMfsConcurrent]_vars

InitServer ==
    /\ outreach_campaigns \in [1..MaxReplyCampaigns -> ReplyCampaignRows]
    /\ system_settings \in SettingValues
    /\ resend_api_key \in BOOLEAN
    /\ mfs_leads = <<>>
    /\ market_gaps = <<>>
    /\ scored_opportunities = <<>>
    /\ NoOutreachWork
    /\ NoBatchWork
    /\ NoServiceWork
    /\ NoScorerWork

NextServer ==
    \/ UnsubscribeGetStep
    \/ UnsubscribePostStep
    \/ SendEmailEndpointStep

SpecServer == InitServer /\ [][NextServer]_vars

InitScored ==
    /\ system_settings \in SettingValues
    /\ resend_api_key \in BOOLEAN
    /\ scored_opportunities \in [1..MaxOpps -> OutreachOppRows]
    /\ mfs_leads = <<>>
    /\ market_gaps = <<>>
    /\ outreach_campaigns = <<>>
    /\ NoOutreachWork
    /\ NoBatchWork
    /\ NoServiceWork
    /\ NoScorerWork

ScoredSweepStartStep ==
    /\ \E failed \in SUBSET {"settings", "select"} : ScoredSweepStart(failed)
    /\ UNCHANGED batchVars

ScoredProcessStep ==
    /\ \E met \in {0, 4} : \E total \in {5, 31} :
         \E failed \in SUBSET {"research", "send", "insert", "update"} :
            ScoredProcess(met, total, failed)
    /\ UNCHANGED batchVars

NextScored ==
    \/ ScoredSweepStartStep
    \/ ScoredProcessStep

SpecScored == InitScored /\ [][NextScored]_vars

InitGaps ==
    /\ system_settings \in SettingValues
    /\ resend_api_key = TRUE
    /\ market_gaps \in [1..MaxGaps -> GapRows]
    /\ mfs_leads = <<>>
    /\ scored_opportunities = <<>>
    /\ outreach_campaigns = <<>>
    /\ NoOutreachWork
    /\ NoBatchWork
    /\ NoServiceWork
    /\ NoScorerWork

GapsSweepStartStep ==
    /\ \E agent \in GapAgents : \E failed \in SUBSET {"settings", "select"} :
          GapsSweepStart(agent, failed)
    /\ UNCHANGED batchVars

SendOutreachStep ==
    /\ \E agent \in GapAgents : \E failed \in SUBSET {"insert", "update"} :
          sendOutreach(agent, failed)
    /\ UNCHANGED batchVars

NextGaps ==
    \/ GapsSweepStartStep
    \/ SendOutreachStep

SpecGaps == InitGaps /\ [][NextGaps]_vars

InitScorer ==
    /\ opportunity \in Opportunities
    /\ scoring = NoScoring
    /\ system_settings = "false"
    /\ resend_api_key = FALSE
    /\ mfs_leads = <<>>
    /\ market_gaps = <<>>
    /\ scored_opportunities = <<>>
    /\ outreach_campaigns = <<>>
    /\ NoOutreachWork
    /\ NoBatchWork
    /\ NoServiceWork

PreQualifyStep ==
    /\ PreQualifyCall
    /\ UNCHANGED <<outreachVars, scored_opportunities, processing_batches,
                   calls, serviceVars>>

ScoreQualifiedLeadStep ==
    /\ ScoreQualifiedLeadCall
    /\ UNCHANGED <<outreachVars, scored_opportunities, processing_batches,
                   calls, serviceVars>>

ProcessOpportunityStep ==
    /\ ProcessOpportunityCall
    /\ UNCHANGED <<outreachVars, scored_opportunities, processing_batches,
                   calls, serviceVars>>

NextScorer ==
    \/ PreQualifyStep
    \/ ScoreQualifiedLeadStep
    \/ ProcessOpportunityStep

SpecScorer == InitScorer /\ [][NextScorer]_vars

\* scoreQualifiedLead on the records that name severity keywords
InitPain ==
    /\ opportunity \in PainOpportunities
    /\ scoring = NoScoring
    /\ system_settings = "false"
    /\ resend_api_key = FALSE
    /\ mfs_leads = <<>>
    /\ market_gaps = <<>>
    /\ scored_opportunities = <<>>
    /\ outreach_campaigns = <<>>
    /\ NoOutreachWork
    /\ NoBatchWork
    /\ NoServiceWork

NextPain == ScoreQualifiedLeadStep

SpecPain == InitPain /\ [][NextPain]_vars

\* campaigns whose reply has not been processed
PendingReplyRows ==
    {[r EXCEPT !.replied_at = TRUE] : r \in ReplyCampaignRows}

\* a sweep that the deployment does not run
SweepOff == [SweepIdle EXCEPT !.pc = "off"]

\* the sweeps of a deployment that runs only the mfs_leads agent, only the
\* scored_opportunities agent, or only the reply processor
OnlySweep(agent) ==
    [mfs     |-> [w \in {1} |-> IF agent = "mfs" THEN SweepIdle ELSE SweepOff],
     scored  |-> IF agent = "scored" THEN SweepIdle ELSE SweepOff,
     gated   |-> SweepOff,
     ungated |-> SweepOff,
     replies |-> IF agent = "replies" THEN SweepIdle ELSE SweepOff]

\* the three deployments with a loop over selected items: the mfs_leads
\* agent, the scored_opportunities agent and the reply processor
InitSweeps ==
    /\ resend_api_key = TRUE
    /\ \/ /\ system_settings \in SettingValues
          /\ mfs_leads \in [1..MaxMfsLeads -> MfsLeadRows]
          /\ scored_opportunities = <<>>
          /\ outreach_campaigns = <<>>
          /\ sweep = OnlySweep("mfs")
       \/ /\ system_settings \in SettingValues
          /\ mfs_leads = <<>>
          /\ scored_opportunities \in [1..MaxOpps -> OutreachOppRows]
          /\ outreach_campaigns = <<>>
          /\ sweep = OnlySweep("scored")
       \/ /\ system_settings = "false"
          /\ mfs_leads = <<>>
          /\ scored_opportunities = <<>>
          /\ outreach_campaigns \in [1..MaxPendingReplies -> PendingReplyRows]
          /\ sweep = OnlySweep("replies")
    /\ market_gaps = <<>>
    /\ email_blocklist = {}
    /\ email_conversations = <<>>
    /\ resend = NoMessages
    /\ replies = <<>>
    /\ faults = 0
    /\ NoBatchWork
    /\ NoServiceWork
    /\ NoScorerWork

ReplySweepStartStep ==
    /\ \E failed \in SUBSET {"select"} : ReplySweepStart(failed)
    /\ UNCHANGED <<scored_opportunities, batchVars>>

\* the answers of the text generator met in the reply sweep: an API
\* error, a classification that is answered, one that is not, and text
SweepAnswers ==
    {a \in GeneratorAnswers :
        \/ a.kind \in {"apiError", "text"}
        \/ a.kind = "json" /\ a.intent \in {"INTERESTED", "UNSUBSCRIBE"}}

ReplySweepHandleStep ==
    /\ \E found \in BOOLEAN :
         \E classAnswer \in SweepAnswers :
           \E genAnswer \in SweepAnswers \cap ResponseAnswers :
              ReplySweepHandle(found, classAnswer, genAnswer)
    /\ UNCHANGED <<scored_opportunities, batchVars>>

ReplySweepMarkStep ==
    /\ \E failed \in SUBSET {"update"} : ReplySweepMark(failed)
    /\ UNCHANGED <<scored_opportunities, batchVars>>

NextSweeps ==
    \/ MfsSweepStartStep
    \/ MfsCheckStep
    \/ MfsSendStep
    \/ MfsCreateCampaignStep
    \/ MfsMarkStep
    \/ ScoredSweepStartStep
    \/ ScoredProcessStep
    \/ ReplySweepStartStep
    \/ ReplySweepHandleStep
    \/ ReplySweepMarkStep

SpecSweeps == InitSweeps /\ [][NextSweeps]_vars

\* statuses of the campaigns the booking service and the reply handler
\* meet
BookingStatuses == {"draft", "sent", "interested", "closed_lost"}

BookingCampaignRows ==
    {CampaignRow("mfs", 1, e, st, st # "draft") :
        e \in {"a@x.com", "b@x.com"}, st \in BookingStatuses}

\* campaigns exist and the calendar holds events for their recipients
InitBooking ==
    /\ outreach_campaigns \in [1..MaxBookingCampaigns -> BookingCampaignRows]
    /\ scheduled_events \in [1..MaxEvents -> {"a@x.com"}]
    /\ sync = SyncIdle
    /\ bookings = <<>>
    /\ completions = <<>>
    /\ inventory = NoReport
    /\ NoAgentWork
    /\ NoDeliveryWork
    /\ system_settings = "false"
    /\ resend_api_key = FALSE
    /\ mfs_leads = <<>>
    /\ market_gaps = <<>>
    /\ scored_opportunities = <<>>
    /\ NoOutreachWork
    /\ NoBatchWork
    /\ NoScorerWork

\* the variables the booking service leaves alone
bookingFrame == <<system_settings, resend_api_key, mfs_leads, market_gaps,
                  email_blocklist, resend, sweep, replies,
                  scored_opportunities, processing_batches, calls,
                  scorerVars, completions, inventory, agentVars,
                  deliveryVars>>

SyncStartStep ==
    /\ \E failed \in SUBSET {"list"} : SyncStart(failed)
    /\ UNCHANGED <<bookingFrame, email_conversations>>

SyncRecordStep ==
    /\ \E failed \in {{}, {"invitee"}, {"select"}, {"update"}} :
          SyncRecord(failed)
    /\ UNCHANGED <<bookingFrame, email_conversations>>

SendBookingInvitationStep ==
    /\ \E cid \in DOMAIN outreach_campaigns :
         \E failed \in SUBSET {"select"} : sendBookingInvitation(cid, failed)
    /\ UNCHANGED bookingFrame

CancelMeetingStep ==
    /\ \E cid \in DOMAIN outreach_campaigns :
         \E failed \in SUBSET {"cancellation"} : cancelMeeting(cid, failed)
    /\ UNCHANGED <<bookingFrame, email_conversations>>

\* classifications of the replies to these campaigns
BookingAnswers ==
    {a \in GeneratorAnswers :
        a.kind = "json" /\ a.intent \in {"INTERESTED", "NOT_INTERESTED"}}

\* handleReply called while no sync is running
BookingReplyStep ==
    /\ sync.pc = "idle"
    /\ \E cid \in DOMAIN outreach_campaigns :
         \E classAnswer \in BookingAnswers :
            handleReply(cid, TRUE, classAnswer,
                        [kind |-> "text", intent |-> UNDEFINED])
    /\ UNCHANGED <<sweep, scored_opportunities, processing_batches, calls,
                   scorerVars, serviceVars>>

NextBooking ==
    \/ SyncStartStep
    \/ SyncRecordStep
    \/ SendBookingInvitationStep
    \/ CancelMeetingStep
    \/ BookingReplyStep

SpecBooking == InitBooking /\ [][NextBooking]_vars

\* the mfs_leads agent runs with sending enabled and can be stopped
InitMfsStop ==
    /\ system_settings = "true"
    /\ resend_api_key = TRUE
    /\ mfs_leads \in [1..MaxMfsLeads -> MfsLeadRows]
    /\ market_gaps = <<>>
    /\ scored_opportunities = <<>>
    /\ outreach_campaigns = <<>>
    /\ email_blocklist = {}
    /\ email_conversations = <<>>
    /\ resend = NoMessages
    /\ sweep = OnlySweep("mfs")
    /\ replies = <<>>
    /\ faults = 0
    /\ NoBatchWork
    /\ NoScorerWork
    /\ NoServiceWork

MfsStopStep ==
    /\ \E w \in DOMAIN sweep.mfs : MfsStop(w)
    /\ UNCHANGED <<scored_opportunities, batchVars>>

NextMfsStop ==
    \/ MfsSweepStartStep
    \/ MfsCheckStep
    \/ MfsSendStep
    \/ MfsCreateCampaignStep
    \/ MfsMarkStep
    \/ MfsStopStep

SpecMfsStop == InitMfsStop /\ [][NextMfsStop]_vars

\* the server answers agent start and stop requests
InitAgents ==
    /\ system_settings = "false"
    /\ resend_api_key = FALSE
    /\ mfs_leads = <<>>
    /\ market_gaps = <<>>
    /\ scored_opportunities = <<>>
    /\ outreach_campaigns = <<>>
    /\ NoOutreachWork
    /\ NoBatchWork
    /\ NoScorerWork
    /\ NoServiceWork

\* the variables the agent endpoints leave alone
agentFrame == <<outreachVars, scored_opportunities, processing_batches,
                calls, scorerVars, completions, inventory, bookingVars,
                deliveryVars>>

StartAgentStep ==
    /\ \E name \in AgentNames : StartAgent(name)
    /\ UNCHANGED <<agentFrame, restartTimers>>

StopAgentStep ==
    /\ \E name \in AgentNames : StopAgent(name)
    /\ UNCHANGED <<agentFrame, restartTimers>>

ChildExitStep ==
    /\ \E pid \in DOMAIN children : ChildExit(pid)
    /\ UNCHANGED <<agentFrame, restartTimers>>

NextAgents ==
    \/ StartAgentStep
    \/ StopAgentStep
    \/ ChildExitStep

SpecAgents == InitAgents /\ [][NextAgents]_vars

\* the server listens and the timer of autoStartAgents is pending
InitRestart ==
    /\ system_settings = "false"
    /\ resend_api_key = FALSE
    /\ mfs_leads = <<>>
    /\ market_gaps = <<>>
    /\ scored_opportunities = <<>>
    /\ outreach_campaigns = <<>>
    /\ NoOutreachWork
    /\ NoBatchWork
    /\ NoScorerWork
    /\ completions = <<>>
    /\ inventory = NoReport
    /\ NoBookingWork
    /\ NoDeliveryWork
    /\ agentProcesses = [n \in AgentNames |-> NoProcess]
    /\ agentStats = [n \in AgentNames |-> "stopped"]
    /\ children = <<>>
    /\ restartTimers = [NoTimers EXCEPT !["autoStartAgents"] = 1]

AutoStartAgentsStep ==
    /\ AutoStartAgents
    /\ UNCHANGED agentFrame

AutoStartSingleAgentStep ==
    /\ \E name \in AutoStarted : AutoStartSingleAgent(name)
    /\ UNCHANGED agentFrame

AutoChildExitStep ==
    /\ \E pid \in DOMAIN children :
         \E code \in {0, 1} : AutoChildExit(pid, code)
    /\ UNCHANGED agentFrame

NextRestart ==
    \/ AutoStartAgentsStep
    \/ AutoStartSingleAgentStep
    \/ AutoChildExitStep
    \/ StartAgentStep
    \/ StopAgentStep
    \/ ChildExitStep

SpecRestart == InitRestart /\ [][NextRestart]_vars

\* campaigns with and without a reply, with delivery_sent not set or
\* set to the column's default
DeliveryCampaignRows ==
    {[CampaignRow("mfs", 1, "a@x.com", st, TRUE) EXCEPT !.delivery_sent = ds] :
        st \in {"sent", "replied"}, ds \in {NULL, "false"}}

\* the delivery agents run over campaigns with replies
InitDelivery ==
    /\ auto_delivery_enabled \in SettingValues
    /\ solution_deliveries = <<>>
    /\ delivery = [a \in DeliveryAgents |-> SweepIdle]
    /\ outreach_campaigns \in [1..MaxDeliveryCampaigns -> DeliveryCampaignRows]
    /\ system_settings = "false"
    /\ resend_api_key = FALSE
    /\ mfs_leads = <<>>
    /\ market_gaps = <<>>
    /\ scored_opportunities = <<>>
    /\ NoOutreachWork
    /\ NoBatchWork
    /\ NoScorerWork
    /\ completions = <<>>
    /\ inventory = NoReport
    /\ NoBookingWork
    /\ NoAgentWork

\* the variables the delivery agents leave alone
deliveryFrame == <<system_settings, resend_api_key, mfs_leads, market_gaps,
                   email_blocklist, email_conversations, resend, sweep,
                   replies, scored_opportunities, processing_batches, calls,
                   scorerVars, completions, inventory, bookingVars,
                   agentVars>>

DeliveryStartStep ==
    /\ \E agent \in DeliveryAgents :
         \E failed \in SUBSET {"settings", "campaigns"} :
            DeliveryStart(agent, failed)
    /\ UNCHANGED deliveryFrame

DeliverSolutionStep ==
    /\ \E agent \in DeliveryAgents :
         \E failed \in SUBSET {"insert", "update"} :
            deliverSolution(agent, failed)
    /\ UNCHANGED deliveryFrame

NextDelivery ==
    \/ DeliveryStartStep
    \/ DeliverSolutionStep

SpecDelivery == InitDelivery /\ [][NextDelivery]_vars

\* the sweeps of the agent of unnamed/part_004 alone, one every 15
\* minutes (lines 15-33)
GatedDeliveryStartStep ==
    /\ \E failed \in SUBSET {"settings", "campaigns"} :
         DeliveryStart("gated", failed)
    /\ UNCHANGED deliveryFrame

GatedDeliverSolutionStep ==
    /\ \E failed \in SUBSET {"insert", "update"} :
         deliverSolution("gated", failed)
    /\ UNCHANGED deliveryFrame

NextGatedDelivery ==
    \/ GatedDeliveryStartStep
    \/ GatedDeliverSolutionStep

SpecGatedDelivery == InitDelivery /\ [][NextGatedDelivery]_vars

\* ------------------------------------------------------------------------
\* Properties
\* ------------------------------------------------------------------------

\* C1: no recipient address has an email dispatched to it by the outreach
\* sweeps more than once, also when the campaign insert, the lead-status
\* update or the duplicate query fails.
C1_NoAddressEmailedTwice ==
    \A e \in Emails : resend.sweep[e] <= 1

\* C2: unless auto_outreach_enabled is 'true', every campaign a sweep
\* records is a draft and no email is dispatched.
C2_DraftsUnlessEnabled ==
    system_settings # "true" =>
        /\ \A i \in 1..Len(outreach_campaigns) :
              outreach_campaigns[i].status # "sent"
        /\ \A e \in Emails : resend.sweep[e] = 0

\* C3: a campaign has status 'sent', and an opportunity outreach_status
\* 'sent', only if a recipient address was resolved and the email for it
\* was handed to the provider successfully.
C3_SentOnlyWhenDispatched ==
    /\ \A i \in 1..Len(outreach_campaigns) :
          outreach_campaigns[i].status = "sent" =>
              /\ outreach_campaigns[i].recipient_email # NULL
              /\ outreach_campaigns[i].dispatched
    /\ \A o \in DOMAIN scored_opportunities :
          scored_opportunities[o].outreach_status = "sent" =>
              \E i \in 1..Len(outreach_campaigns) :
                  /\ outreach_campaigns[i].opportunity_id = o
                  /\ outreach_campaigns[i].dispatched

\* C4: no email is dispatched to an address that is on the block list at
\* the time of the dispatch.
C4_NoDispatchToBlocked ==
    resend.blocked = {}

\* C5: once handleReply has returned for a reply classified UNSUBSCRIBE,
\* the sender's address is on the block list.
C5_UnsubscribeBlocks ==
    \A i \in 1..Len(replies) :
        (~replies[i].threw /\ replies[i].intent = "UNSUBSCRIBE") =>
            replies[i].recipient \in email_blocklist

\* C6: for a reply classified OUT_OF_OFFICE or UNSUBSCRIBE no response is
\* generated: the response is null, the text generator is asked for the
\* classification only, and the conversation stored for the reply is the
\* incoming message alone.
C6_NoResponseToOooOrUnsubscribe ==
    \A i \in 1..Len(replies) :
        (~replies[i].threw
            /\ replies[i].intent \in {"OUT_OF_OFFICE", "UNSUBSCRIBE"}) =>
            /\ replies[i].response = NULL
            /\ replies[i].asked = 1
            /\ \A k \in 1..Len(email_conversations) :
                  email_conversations[k].reply = i =>
                      email_conversations[k].direction = "incoming"

\* a reply classified UNSUBSCRIBE and one classified OUT_OF_OFFICE have
\* been handled and their incoming messages stored
C6_Witness ==
    \E i, j \in 1..Len(replies) :
        /\ ~replies[i].threw /\ replies[i].intent = "UNSUBSCRIBE"
        /\ ~replies[j].threw /\ replies[j].intent = "OUT_OF_OFFICE"
        /\ \E k \in 1..Len(email_conversations) :
              /\ email_conversations[k].reply = i
              /\ email_conversations[k].direction = "incoming"

\* the number of eligible rows before the first of the createBatch calls
InventoryAtFirstCall ==
    LET counts == {calls[c].eligible : c \in Callers}
    IN  CHOOSE n \in counts : \A m \in counts : m <= n

\* C7: two concurrent createBatch calls never claim the same lead, and
\* when the inventory holds at least one and less than two batches exactly
\* one call succeeds, with batchSize leads.
C7_ExactlyOneBatch ==
    (\A c \in Callers : calls[c].pc = "done") =>
        /\ \A c, d \in Callers :
              c # d => calls[c].claimed \cap calls[d].claimed = {}
        /\ (InventoryAtFirstCall >= batchSize
                /\ InventoryAtFirstCall < 2 * batchSize) =>
              Cardinality({c \in Callers :
                              /\ calls[c].outcome = "success"
                              /\ calls[c].leadCount = batchSize}) = 1

\* C8: with fewer eligible leads than batchSize createBatch fails with the
\* insufficient-inventory condition and writes no lead's batch_id.
C8_InsufficientInventory ==
    \A c \in Callers :
        (calls[c].pc = "done" /\ calls[c].eligible < batchSize) =>
            /\ calls[c].outcome = "INSUFFICIENT_INVENTORY"
            /\ calls[c].claimed = {}

\* C9: with at least batchSize eligible leads createBatch succeeds and
\* assigns exactly batchSize leads to the new batch.
C9_BatchOfTopLeads ==
    \A c \in Callers :
        (calls[c].pc = "done" /\ calls[c].eligible >= batchSize) =>
            /\ calls[c].outcome = "success"
            /\ calls[c].leadCount = batchSize
            /\ Cardinality(calls[c].claimed) = batchSize

\* leads whose batch_id is b
Members(b) ==
    {l \in DOMAIN scored_opportunities : scored_opportunities[l].batch_id = b}

C11_ScoredOnlyWhenQualified ==
    scoring.call = "processOpportunity" =>
        LET r == scoring.result
        IN  /\ "scoreQualifiedLead" \in r.invoked => r.preQualified
            /\ ~r.preQualified =>
                  /\ ~r.qualified
                  /\ r.action = "SKIP"
                  /\ r.score = 0
                  /\ "breakdown" \notin DOMAIN r
                  /\ "recommendation" \notin DOMAIN r

\* processOpportunity has returned for a lead that preQualify rejects
C11_Witness ==
    /\ scoring.call = "processOpportunity"
    /\ ~scoring.result.preQualified
    /\ scoring.result.invoked = {"preQualify"}

\* C12: scoreQualifiedLead returns every sub-score within 0..10 and
\* totalScore equal to their sum and within 0..40.
C12_ScoresWithinRange ==
    scoring.call = "scoreQualifiedLead" =>
        LET r == scoring.result
        IN  /\ r.painSeverity \in 0..10
            /\ r.budgetLikelihood \in 0..10
            /\ r.urgency \in 0..10
            /\ r.serviceFit \in 0..10
            /\ r.totalScore = r.painSeverity + r.budgetLikelihood
                                 + r.urgency + r.serviceFit
            /\ r.totalScore \in 0..40

\* scoreQualifiedLead has returned for a text whose pain keywords add up
\* to more than 10 before the clamp
C12_Witness ==
    /\ scoring.call = "scoreQualifiedLead"
    /\ scoring.result.painSeverity = 10
    /\ roundedPain(painHits(lowerCase(stringify(opportunity)))) > 10

\* C13: for a lead whose overall_score is at least 70 preQualify returns
\* qualified = true whatever its text, contact fields and routing flag.
C13_HighScoreQualifies ==
    (scoring.call = "preQualify" /\ opportunity.overall_score >= 70) =>
        scoring.result.qualified

\* preQualify has returned for a lead of score 70 with no text, no contact
\* field and no routing flag
C13_Witness ==
    /\ scoring.call = "preQualify"
    /\ opportunity.overall_score = 70
    /\ opportunity.pain_point = ""
    /\ opportunity.route_to_outreach = "undefined"
    /\ opportunity.contact_email = NULL
    /\ opportunity.company_domain = NULL
    /\ scoring.result.qualified

\* C14: preQualify returns qualified = true exactly when at least 3 of the
\* four criteria hold, or the routing flag is set, or the score is at
\* least 70, the criteria being built from the signals as stated.
C14_QualificationRule ==
    scoring.call = "preQualify" =>
        LET r       == scoring.result
            sig     == r.signals
            high    == opportunity.overall_score >= 70
            routing == opportunity.route_to_outreach = "true"
            looking == sig.needsHelp \/ sig.hiring \/ sig.sourcingSolutions
                          \/ high
            budget  == sig.fundingMentioned \/ sig.payingForTools
                          \/ sig.budgetSignals \/ high
            pain    == sig.painPointDetected \/ high
            contact == \/ opportunity.company_domain # NULL
                       \/ opportunity.contact_email # NULL
                       \/ routing
            reach   == contact \/ routing
            count   == (IF looking THEN 1 ELSE 0) + (IF budget THEN 1 ELSE 0)
                          + (IF pain THEN 1 ELSE 0) + (IF reach THEN 1 ELSE 0)
        IN  /\ sig.hasContactInfo = contact
            /\ r.criteria.lookingForSolutions = looking
            /\ r.criteria.hasBudget = budget
            /\ r.criteria.relevantPainPoint = pain
            /\ r.criteria.reachable = reach
            /\ r.qualified = (count >= 3 \/ routing \/ high)

\* preQualify has qualified a lead on exactly three criteria, with no
\* routing flag and a score below 70
C14_Witness ==
    /\ scoring.call = "preQualify"
    /\ scoring.result.qualified
    /\ metCriteria(scoring.result.criteria) = 3
    /\ opportunity.route_to_outreach # "true"
    /\ opportunity.overall_score < 70

\* the lead of the worked example: the phrases "struggling", "need help",
\* "funded" and "lead generation", no score, no routing flag
IsWorkedExample ==
    /\ opportunity \in Opportunities
    /\ opportunity.pain_point = textOf({1, 2, 3, 4}, 1)
    /\ opportunity.overall_score = 0
    /\ opportunity.route_to_outreach = "undefined"

\* C15: for the lead of the worked example preQualify finds all four
\* criteria true and qualifies it, and scoreQualifiedLead yields
\* painSeverity 2, budgetLikelihood 4, urgency 6, serviceFit 10,
\* totalScore 22 and recommendation MAYBE.
C15_WorkedExample ==
    /\ (IsWorkedExample /\ scoring.call = "preQualify") =>
          /\ metCriteria(scoring.result.criteria) = 4
          /\ scoring.result.qualified
    /\ (IsWorkedExample /\ scoring.call = "scoreQualifiedLead") =>
          /\ scoring.result.painSeverity = 2
          /\ scoring.result.budgetLikelihood = 4
          /\ scoring.result.urgency = 6
          /\ scoring.result.serviceFit = 10
          /\ scoring.result.totalScore = 22
          /\ scoring.result.recommendation = "MAYBE"

\* C15 as the code computes it: for the lead of the worked example
\* preQualify finds lookingForSolutions and hasBudget true and
\* relevantPainPoint false ("struggling" does not include "struggle"), so
\* the lead qualifies exactly when it has a contact email or a company
\* domain; scoreQualifiedLead yields painSeverity 0, budgetLikelihood 4,
\* urgency 6, serviceFit 7, totalScore 17 and recommendation SKIP.
C15_WorkedExampleAsComputed ==
    /\ (IsWorkedExample /\ scoring.call = "preQualify") =>
          /\ scoring.result.criteria.lookingForSolutions
          /\ scoring.result.criteria.hasBudget
          /\ ~scoring.result.criteria.relevantPainPoint
          /\ scoring.result.criteria.reachable =
                (\/ opportunity.contact_email # NULL
                 \/ opportunity.company_domain # NULL)
          /\ scoring.result.qualified = scoring.result.criteria.reachable
    /\ (IsWorkedExample /\ scoring.call = "scoreQualifiedLead") =>
          /\ scoring.result.painSeverity = 0
          /\ scoring.result.budgetLikelihood = 4
          /\ scoring.result.urgency = 6
          /\ scoring.result.serviceFit = 7
          /\ scoring.result.totalScore = 17
          /\ scoring.result.recommendation = "SKIP"

\* scoreQualifiedLead has returned for the lead of the worked example
C15_Witness ==
    /\ IsWorkedExample
    /\ scoring.call = "scoreQualifiedLead"
    /\ scoring.result.totalScore = 17

\* the tier that belongs to a total score
TierOf(totalScore) ==
    CASE totalScore >= 30                    -> "PRIORITY"
      [] totalScore >= 25 /\ totalScore < 30 -> "QUALIFIED"
      [] totalScore >= 20 /\ totalScore < 25 -> "MAYBE"
      [] totalScore < 20                     -> "SKIP"

\* C16: the recommendation is the tier of totalScore, and for a qualified
\* lead the action of processOpportunity equals the recommendation of
\* scoreQualifiedLead.
C16_ActionIsRecommendation ==
    /\ scoring.call = "scoreQualifiedLead" =>
          scoring.result.recommendation = TierOf(scoring.result.totalScore)
    /\ (scoring.call = "processOpportunity" /\ scoring.result.qualified) =>
          /\ scoring.result.recommendation = TierOf(scoring.result.score)
          /\ scoring.result.action = scoring.result.recommendation

\* processOpportunity has returned for a qualified lead whose total score
\* sits on the lower edge of a tier
C16_Witness ==
    /\ scoring.call = "processOpportunity"
    /\ scoring.result.qualified
    /\ scoring.result.score \in {20, 25, 30}
    /\ scoring.result.action # "SKIP"

\* a campaign with status 'sent' exists for the address
HasSentCampaign(email) ==
    \E i \in 1..Len(outreach_campaigns) :
        /\ outreach_campaigns[i].recipient_email = email
        /\ outreach_campaigns[i].status = "sent"

\* C17: when the sweep comes to a lead whose contact email already has a
\* campaign with status 'sent', it goes on to the next lead without
\* sending, sets the lead's outreach_status to 'already_sent' and inserts
\* no campaign row.
C17_AlreadySentIsSkipped ==
    [][\A w \in DOMAIN sweep.mfs :
          (/\ sweep.mfs[w].pc = "check"
           /\ sweep'.mfs[w] # sweep.mfs[w]
           /\ HasSentCampaign(mfs_leads[Head(sweep.mfs[w].queue)].contact_email))
          => /\ sweep'.mfs[w].pc \in {"idle", "check"}
             /\ resend' = resend
             /\ outreach_campaigns' = outreach_campaigns
             /\ mfs_leads'[Head(sweep.mfs[w].queue)].outreach_status
                   = "already_sent"]_vars

\* C18: two sweeps running at the same time never both dispatch an email
\* to the same address: the existence check and the send of one sweep are
\* not interleaved with those of the other.
C18_SendsSerialized ==
    \A v, w \in DOMAIN sweep.mfs :
        (v # w /\ sweep.mfs[v].sent /\ sweep.mfs[w].sent) =>
            mfs_leads[Head(sweep.mfs[v].queue)].contact_email
                # mfs_leads[Head(sweep.mfs[w].queue)].contact_email

\* C19: when the dispatch for a lead fails the sweep sets the lead's
\* outreach_status to 'send_failed', inserts no campaign for it, and the
\* lead is not selected by a later sweep.
C19_SendFailureHalts ==
    [][\A w \in DOMAIN sweep.mfs :
          (/\ sweep.mfs[w].pc = "send"
           /\ sweep'.mfs[w] # sweep.mfs[w]
           /\ resend' = resend)
          => /\ mfs_leads'[Head(sweep.mfs[w].queue)].outreach_status
                   = "send_failed"
             /\ outreach_campaigns' = outreach_campaigns
             /\ Head(sweep.mfs[w].queue) \notin MfsReady']_vars

\* what a step makes of a running loop: it stays at its item, or goes on
\* to the next item, the rest of the selection being kept
KeepsSelection(before, after) ==
    before.pc \notin {"idle", "off"} =>
        after.queue \in {before.queue, Tail(before.queue)}

\* C20: a failure while one item of a sweep is processed never ends the
\* sweep: whatever happens to an item, the items selected after it stay
\* in the loop and are processed in their turn.
C20_FailureNeverAbortsSweep ==
    [][/\ \A w \in DOMAIN sweep.mfs :
             KeepsSelection(sweep.mfs[w], sweep'.mfs[w])
       /\ KeepsSelection(sweep.scored, sweep'.scored)
       /\ KeepsSelection(sweep.replies, sweep'.replies)]_vars

\* the reply sweep has met a reply whose handling threw and has gone on
\* to handle the reply of another campaign
C20_Witness ==
    \E i, j \in 1..Len(replies) :
        /\ i < j
        /\ replies[i].threw
        /\ ~replies[j].threw
        /\ replies[i].campaign # replies[j].campaign
        /\ outreach_campaigns[replies[j].campaign].reply_processed

\* C21: completeBatch marks the batch 'complete'; with at least batchSize
\* eligible leads it creates and returns the next batch, with fewer it
\* returns null without an error, and the batch stays 'complete'.
C21_CompleteThenNextBatch ==
    \A i \in DOMAIN completions :
        (completions[i].pc = "done" /\ completions[i].outcome # "updateError") =>
            /\ processing_batches[completions[i].batch].status = "complete"
            /\ IF completions[i].eligible >= batchSize
               THEN completions[i].outcome = "success"
               ELSE completions[i].outcome = NULL

\* a lead whose outreach has reached a terminal status
IsTerminal(opp) == opp.outreach_status # NULL

\* C22: a batch is 'complete' only when every lead assigned to it has
\* reached a terminal outreach status.
C22_CompleteOnlyWhenAllProcessed ==
    \A b \in DOMAIN processing_batches :
        processing_batches[b].status = "complete" =>
            \A l \in Members(b) : IsTerminal(scored_opportunities[l])

\* the mapping of intents to statuses
StatusOfIntent ==
    [i \in {"INTERESTED", "READY_TO_BOOK", "OBJECTION", "NOT_INTERESTED"} |->
        CASE i = "INTERESTED"     -> "interested"
          [] i = "READY_TO_BOOK"  -> "booking"
          [] i = "OBJECTION"      -> "nurturing"
          [] i = "NOT_INTERESTED" -> "closed_lost"]

\* the last handleReply call
LastReply == replies[Len(replies)]

IsReplyStep == Len(replies') = Len(replies) + 1

\* C24: a reply classified OUT_OF_OFFICE or UNSUBSCRIBE leaves the
\* campaign's status as it was before the reply.
C24_PassThroughKeepsStatus ==
    [][(/\ IsReplyStep
        /\ ~LastReply'.threw
        /\ LastReply'.intent \in {"OUT_OF_OFFICE", "UNSUBSCRIBE"}) =>
           outreach_campaigns'[LastReply'.campaign].status =
               outreach_campaigns[LastReply'.campaign].status]_vars

\* the classifier's answer does not fit the classification contract: it
\* holds no JSON, malformed JSON, or an object without intent
IsUnparseable(r) ==
    \/ r.answer \in {"text", "badJson"}
    \/ r.answer = "json" /\ r.intent = UNDEFINED

\* C25: a reply whose classification cannot be parsed is handled as
\* UNCLEAR: the action is 'flag_for_human_review', no response is
\* generated or stored as outgoing, and the status is not set to one of
\* the statuses of a recognised intent.
C25_UnparseableIsUnclear ==
    [][(IsReplyStep /\ IsUnparseable(LastReply')) =>
          /\ LastReply'.action = "flag_for_human_review"
          /\ LastReply'.response = NULL
          /\ LastReply'.asked = 1
          /\ \A k \in DOMAIN email_conversations' :
                email_conversations'[k].reply = Len(replies') =>
                    email_conversations'[k].direction = "incoming"
          /\ outreach_campaigns'[LastReply'.campaign].status \in
                {outreach_campaigns[LastReply'.campaign].status, "replied"}]_vars

\* the last call of the booking service
LastBooking == bookings[Len(bookings)]

\* a step in which recordScheduledMeeting has run for an event
IsRecordStep ==
    /\ Len(bookings') = Len(bookings) + 1
    /\ LastBooking'.op = "record"

\* the campaigns an event has moved to 'meeting_scheduled' in the calls
\* of log
MovedBy(log, event) ==
    {log[k].campaign : k \in {j \in DOMAIN log :
                                 /\ log[j].op = "record"
                                 /\ log[j].event = event
                                 /\ log[j].campaign # 0}}

\* recordScheduledMeeting changes no campaign but the most recently
\* created open campaign of the invitee, which it sets to
\* 'meeting_scheduled'
RecordsMostRecentOnly ==
    LET open == OpenCampaigns(scheduled_events[LastBooking'.event])
    IN  /\ \A i \in DOMAIN outreach_campaigns :
              (open = {} \/ i # MostRecent(open)) =>
                  outreach_campaigns'[i] = outreach_campaigns[i]
        /\ LastBooking'.campaign # 0 =>
              /\ open # {}
              /\ LastBooking'.campaign = MostRecent(open)
              /\ outreach_campaigns'[MostRecent(open)].status =
                    "meeting_scheduled"

\* C26: a calendar event moves exactly one campaign to
\* 'meeting_scheduled', the most recently created open campaign of the
\* invitee's email; older open campaigns of that email and campaigns in
\* other statuses stay as they are, and without an open campaign nothing
\* changes.
C26_EventMovesOneCampaign ==
    [][IsRecordStep =>
          /\ RecordsMostRecentOnly
          /\ Cardinality(MovedBy(bookings', LastBooking'.event)) <= 1]_vars

\* the stage of a status in the lifecycle draft -> sent ->
\* {opened, replied} -> {interested, booking, nurturing, closed_lost} ->
\* meeting_scheduled -> {completed, meeting_cancelled}; 'booking_sent' is
\* the booking stage with the invitation sent
Stage(status) ==
    CASE status = "draft" -> 0
      [] status = "sent" -> 1
      [] status \in {"opened", "replied"} -> 2
      [] status \in {"interested", "booking", "booking_sent", "nurturing",
                     "closed_lost"} -> 3
      [] status = "meeting_scheduled" -> 4
      [] status \in {"completed", "meeting_cancelled"} -> 5

\* a change of status the lifecycle allows: forward, or between the open
\* statuses of the reply stage; 'draft' is left for 'sent' only,
\* 'closed_lost' is not left for another reply status and
\* 'meeting_cancelled' follows 'meeting_scheduled' only
LifecycleEdge(from, to) ==
    /\ \/ Stage(to) > Stage(from)
       \/ Stage(to) = 3 /\ Stage(from) = 3 /\ from # "closed_lost"
    /\ from = "draft" => to = "sent"
    /\ to = "meeting_cancelled" => from = "meeting_scheduled"

\* C27: whatever reply, booking, calendar and cancellation operations
\* run, the status of a campaign changes along the lifecycle only: a draft
\* does not become interested or booking, a closed_lost campaign is not
\* re-opened by a reply, and meeting_cancelled follows meeting_scheduled.
C27_StatusFollowsLifecycle ==
    [][\A i \in DOMAIN outreach_campaigns :
          outreach_campaigns'[i].status # outreach_campaigns[i].status =>
              LifecycleEdge(outreach_campaigns[i].status,
                            outreach_campaigns'[i].status)]_vars

\* C28: an agent that is stopped while a sweep handles a lead exits only
\* when the lead is finished: it has never exited with an email
\* dispatched for the lead at hand and the campaign row or the lead's
\* outreach status not yet written.
C28_StopLetsLeadFinish ==
    \A w \in DOMAIN sweep.mfs :
        sweep.mfs[w].pc = "exited" =>
            ~(sweep.mfs[w].sent /\ sweep.mfs[w].queue # <<>>)

\* the children of an agent name that run and have not been killed
LiveChildren(name) ==
    {pid \in DOMAIN children :
        children[pid].name = name /\ children[pid].state = "live"}

\* C29: after any interleaving of start requests, stop requests and exit
\* events at most one live process exists per agent name, the status is
\* 'running' exactly when a live process is tracked, and a live process
\* is not untracked by the exit of the one it replaced.
C29_StartStopIdempotent ==
    \A name \in AgentNames :
        /\ Cardinality(LiveChildren(name)) <= 1
        /\ agentStats[name] = "running" <=>
              agentProcesses[name] \in LiveChildren(name)
        /\ LiveChildren(name) \subseteq {agentProcesses[name]}

\* C30: unless auto_delivery_enabled is 'true' no delivery is created
\* 'delivered' and no campaign becomes 'delivered' or gets delivery_sent
\* set; a delivery is 'delivered' only with approved_for_delivery true.
C30_DeliveryNeedsApproval ==
    /\ auto_delivery_enabled # "true" =>
          /\ \A d \in DOMAIN solution_deliveries :
                solution_deliveries[d].status # "delivered"
          /\ \A i \in DOMAIN outreach_campaigns :
                /\ outreach_campaigns[i].status # "delivered"
                /\ outreach_campaigns[i].delivery_sent # "true"
    /\ \A d \in DOMAIN solution_deliveries :
          solution_deliveries[d].status = "delivered" =>
              solution_deliveries[d].approved_for_delivery

\* the signals detectSignals finds by keyword, each with its list
KeywordLists ==
    [needsHelp            |-> needsHelpKeywords,
     hiring               |-> hiringKeywords,
     sourcingSolutions    |-> sourcingSolutionsKeywords,
     fundingMentioned     |-> fundingMentionedKeywords,
     payingForTools       |-> payingForToolsKeywords,
     budgetSignals        |-> budgetSignalsKeywords,
     painPointDetected    |-> painPointDetectedKeywords,
     urgencyHigh          |-> urgencyHighKeywords,
     urgencyMedium        |-> urgencyMediumKeywords,
     clientAcquisitionFit |-> clientAcquisitionFitKeywords]

\* the search corpus as the contract describes it: the values of the
\* lead's textual fields, in lower case, one after the other
textCorpus(opp) ==
    lowerCase(opp.pain_point
                \o (IF opp.contact_email = NULL THEN ""
                    ELSE " " \o opp.contact_email)
                \o (IF opp.company_domain = NULL THEN ""
                    ELSE " " \o opp.company_domain))

\* C31: each keyword signal of detectSignals is true if and only if a
\* keyword of its list is a substring of the lower-case concatenation of
\* the lead's textual field values; field names and non-textual values
\* add nothing to the corpus.
C31_SignalsFromTextOnly ==
    scoring.call = "preQualify" =>
        \A signal \in DOMAIN KeywordLists :
            scoring.result.signals[signal]
                = containsAny(textCorpus(opportunity), KeywordLists[signal])


\* the number of severity keywords the lead's text names
severityKeywordCount ==
    Cardinality({keyword \in painKeywords :
                    includes(lowerCase(opportunity.pain_point), keyword)})

\* Math.round of 0.8 * k: the integer within a half of it
nearestToFourFifths(k) ==
    CHOOSE n \in 0..k : 10 * n - 5 <= 8 * k /\ 8 * k < 10 * n + 5

\* C32: painSeverity is min(10, round(0.8 * k)), k being the number of
\* distinct keywords of the severity list that occur in the lead's text,
\* for every k from 0 to 15.
C32_PainSeverityOfHits ==
    scoring.call = "scoreQualifiedLead" =>
        LET k == severityKeywordCount
        IN  scoring.result.painSeverity
                = (IF nearestToFourFifths(k) > 10 THEN 10
                   ELSE nearestToFourFifths(k))

\* scoreQualifiedLead has returned 2 for a text naming three keywords
\* (2.4 rounded) and 10 for one naming fourteen (11.2 clamped)
C32_Witness ==
    /\ scoring.call = "scoreQualifiedLead"
    /\ \/ severityKeywordCount = 3 /\ scoring.result.painSeverity = 2
       \/ severityKeywordCount = 14 /\ scoring.result.painSeverity = 10

\* C33: getInventoryStatus reports as available the number of leads that
\* are qualified, score at least minScore and have no batch, and
\* needsReplenishment exactly when that number is below 1000; no lead and
\* no batch is changed.
C33_InventoryReport ==
    inventory.pc = "done" =>
        /\ inventory.report.available = inventory.eligible
        /\ inventory.report.needsReplenishment = (inventory.eligible < 1000)
        /\ inventory.eligible = Cardinality(Eligible(scored_opportunities))

\* C34: a lead the scoring outreach sweep selected whose total score is
\* below 30 is skipped: no campaign is created, no email is sent or
\* drafted for it and it is not marked 'sent' or 'draft'.
C34_LowTotalIsSkipped ==
    [][\A met \in {0, 4}, total \in {5, 31},
         failed \in SUBSET {"research", "send", "insert", "update"} :
           (total < 30 /\ ScoredProcess(met, total, failed)) =>
               /\ outreach_campaigns' = outreach_campaigns
               /\ resend' = resend
               /\ scored_opportunities'[Head(sweep.scored.queue)].outreach_status
                      \notin {"sent", "draft"}]_vars

\* the batches that are not complete
OpenBatches ==
    {b \in DOMAIN processing_batches :
        processing_batches[b].status # "complete"}

C36_InterestTriggersBooking ==
    /\ \A i \in DOMAIN replies :
          ~replies[i].threw =>
              (replies[i].booked
                  <=> replies[i].intent \in {"INTERESTED", "READY_TO_BOOK"})
    /\ (/\ replies # <<>>
        /\ ~LastReply.threw
        /\ LastReply.intent \in {"INTERESTED", "READY_TO_BOOK"}) =>
           outreach_campaigns[LastReply.campaign].status = "booking"

\* the place of a status in created -> researching -> ready_to_send ->
\* sending -> complete
BatchStage ==
    [st \in BatchStatuses |->
        CASE st = "created"       -> 1
          [] st = "researching"   -> 2
          [] st = "ready_to_send" -> 3
          [] st = "sending"       -> 4
          [] st = "complete"      -> 5]

\* C37: over any sequence of updateBatchStatus and completeBatch calls a
\* batch's status stays within created, researching, ready_to_send,
\* sending, complete and never moves backwards; once 'complete' it never
\* changes again.
C37_BatchStatusMovesForward ==
    [][\A b \in DOMAIN processing_batches :
          /\ processing_batches'[b].status \in BatchStatuses
          /\ BatchStage[processing_batches'[b].status]
                 >= BatchStage[processing_batches[b].status]]_vars

\* C38: the crash (exit with a non-zero code) of an auto-started agent,
\* also of an instance the auto-restart started, schedules a restart of
\* that agent, which spawns it 30 seconds later unless a process is
\* tracked by then; an exit with code 0, as after a stop request,
\* schedules none.
C38_CrashIsRestarted ==
    [][\A pid \in DOMAIN children :
          (/\ children[pid].by # "endpoint"
           /\ children[pid].state # "gone"
           /\ children'[pid].state = "gone") =>
              restartTimers'[children[pid].name] =
                  restartTimers[children[pid].name]
                      + (IF children'[pid].code # 0 THEN 1 ELSE 0)]_vars

\* the deliveries created for a campaign
DeliveriesOf(cid) ==
    {d \in DOMAIN solution_deliveries :
        solution_deliveries[d].campaign_id = cid}

\* C39: over any number of delivery sweeps at most one solution delivery
\* is created per campaign, with auto-delivery enabled or disabled: a
\* campaign that has a delivery is not selected again.
C39_OneDeliveryPerCampaign ==
    \A cid \in DOMAIN outreach_campaigns :
        Cardinality(DeliveriesOf(cid)) <= 1

====
